---- MODULE Spec2Model ----
(***************************************************************************)
(* Calendar assistant bot: the interaction store (pkg/database), the       *)
(* classifier post-processing (pkg/ai/openai.go), the agent pipeline       *)
(* (pkg/ai/agent.go) and the calendar service's date handling              *)
(* (pkg/calendar).                                                         *)
(*                                                                         *)
(* Two specifications share the variables:                                 *)
(*   Spec       one ProcessUserMessage run over a store loaded at startup  *)
(*   SpecStore  two goroutines calling the store's operations directly     *)
(***************************************************************************)
EXTENDS Integers, Sequences, FiniteSets, TLC

VARIABLES
    interactions,   \* Database.interactions: map userID -> slice of Interaction
    file,           \* the content of interactions.json
    mutex,          \* Database.mutex (sync.RWMutex)
    now,            \* the wall clock read by time.Now()
    proc,           \* one record per goroutine: its position and its locals
    backup,         \* the content of the file Backup writes
    history         \* what has happened so far (read by the properties only)

vars == <<interactions, file, mutex, now, proc, backup, history>>

----------------------------------------------------------------------------
(* Bounds of the model *)

\* longest sub-intent list the classifier returns
MaxActions == 2
\* last instant the clock reaches
MaxClock == 1
\* store operations the goroutines of SpecStore call in all
MaxCalls == 2
\* most events the calendar answers with in SpecEvents
MaxListed == 22
\* most line breaks in a text handed to SendMessage in SpecSend
MaxNewlines == 2

(* Program constants *)

\* "Keep only last 50 interactions per user"
HistoryCap == 50
\* GetUserContext(userID, 10) in ProcessUserMessage
ContextCount == 10
\* maxEvents of a single getEvents
MaxEventsSingle == 20
\* maxEvents of a getEvents inside the actions list
MaxEventsMulti == 15
\* "max 4096 characters": above this SendMessage splits the text
TelegramLimit == 4096
\* maxLength of sendLongMessage
MaxLength == 4000

Users == {1, 2}
Procs == {"g1", "g2"}
NoProc == "none"

\* instants of the n interactions an earlier run of the program left in the
\* file: appended in time order, the last one at instant 0
InitTime(i, n) == IF n - i >= 2 THEN 0 - 2 ELSE i - n

----------------------------------------------------------------------------
(* types.Interaction and the in-memory table *)

Interaction(u, ts, um, ar, a) ==
    [UserID |-> u, Timestamp |-> ts, UserMessage |-> um, AIResponse |-> ar, Action |-> a]

EmptyTable == [u \in {} |-> <<>>]

\* d.interactions[userID]: a missing key reads as the nil slice
Lookup(table, u) == IF u \in DOMAIN table THEN table[u] ELSE <<>>

\* (mutant: the assignment replaces the whole map)
Store_ReplacesMap(table, u, s) == [k \in {u} |-> s]

\* d.interactions[userID] = s
Store(table, u, s) == [k \in DOMAIN table \cup {u} |-> IF k = u THEN s ELSE table[k]]

\* s[len(s)-n:]
LastN(s, n) == SubSeq(s, Len(s) - n + 1, Len(s))

----------------------------------------------------------------------------
(* encoding/json of map[int64][]types.Interaction *)

\* time.Time <-> RFC 3339 text
TimeText(ts) == IF ts < 0 THEN "T-" \o ToString(0 - ts) ELSE "T+" \o ToString(ts)
TimeInstants == (0 - 3) .. (MaxClock + 3)
ParseTime(s) == CHOOSE ts \in TimeInstants : TimeText(ts) = s

\* (mutant: "action" is never written)
MarshalInteraction_DropsAction(x) ==
    [user_id |-> x.UserID, timestamp |-> TimeText(x.Timestamp),
     user_message |-> x.UserMessage, ai_response |-> x.AIResponse]

\* an Interaction as a JSON object; "action" is omitempty
MarshalInteraction(x) ==
    IF x.Action = ""
    THEN [user_id |-> x.UserID, timestamp |-> TimeText(x.Timestamp),
          user_message |-> x.UserMessage, ai_response |-> x.AIResponse]
    ELSE [user_id |-> x.UserID, timestamp |-> TimeText(x.Timestamp),
          user_message |-> x.UserMessage, ai_response |-> x.AIResponse,
          action |-> x.Action]

UnmarshalInteraction(j) ==
    Interaction(j.user_id, ParseTime(j.timestamp), j.user_message, j.ai_response,
                IF "action" \in DOMAIN j THEN j.action ELSE "")

\* json.MarshalIndent(d.interactions): int64 keys become decimal strings
Marshal(table) ==
    [k \in {ToString(u) : u \in DOMAIN table} |->
        LET u == CHOOSE v \in DOMAIN table : ToString(v) = k
        IN  [i \in 1..Len(table[u]) |-> MarshalInteraction(table[u][i])]]

\* json.Unmarshal(data, &interactions)
Unmarshal(json) ==
    [u \in {v \in Users : ToString(v) \in DOMAIN json} |->
        [i \in 1..Len(json[ToString(u)]) |-> UnmarshalInteraction(json[ToString(u)][i])]]

\* the file: absent, zero bytes, bytes that are no JSON, or a JSON document
MissingFile == [kind |-> "missing", json |-> Marshal(EmptyTable)]
ZeroFile    == [kind |-> "empty",   json |-> Marshal(EmptyTable)]
CorruptFile == [kind |-> "corrupt", json |-> Marshal(EmptyTable)]
JsonFile(table) == [kind |-> "json", json |-> Marshal(table)]

\* loadInteractions: the table NewDatabase ends with, given the file it finds
loadInteractions(f) ==
    IF f.kind = "missing" THEN EmptyTable
    ELSE IF f.kind = "empty" THEN EmptyTable
    ELSE IF f.kind = "corrupt" THEN EmptyTable
    ELSE Unmarshal(f.json)

\* loadInteractions: the error it returns
LoadError(f) ==
    IF f.kind = "corrupt" THEN "failed to unmarshal interactions" ELSE "nil"

\* (mutant: NewDatabase gives up when the file cannot be loaded)
NewDatabaseError_Propagates(f) == LoadError(f)

\* NewDatabase, lines 35-39: a load error is logged as a warning, not returned
NewDatabaseError(f) == "nil"

\* the table an earlier run left behind: n1 interactions of user 1, n2 of user 2
OldList(u, n) ==
    [i \in 1..n |-> Interaction(u, InitTime(i, n), "old" \o ToString(i),
                                "re" \o ToString(i), IF i % 2 = 0 THEN "getEvents" ELSE "")]
OldTable(n1, n2) ==
    [u \in {v \in Users : (v = 1 /\ n1 > 0) \/ (v = 2 /\ n2 > 0)} |->
        OldList(u, IF u = 1 THEN n1 ELSE n2)]

----------------------------------------------------------------------------
(* The store's operations as pure functions of their inputs *)

\* (mutant: the truncation keeps the first HistoryCap instead of the last)
AppendTruncate_KeepsOldest(list, x) ==
    LET appended == Append(list, x)
    IN  IF Len(appended) > HistoryCap THEN SubSeq(appended, 1, HistoryCap) ELSE appended

\* AddInteraction, lines 56-64: append, then keep the last HistoryCap
AppendTruncate(list, x) ==
    LET appended == Append(list, x)
    IN  IF Len(appended) > HistoryCap THEN LastN(appended, HistoryCap) ELSE appended

\* (mutant: the slice is taken from the front)
RecentSlice_Oldest(list, limit) ==
    IF Len(list) = 0 THEN <<>>
    ELSE IF limit > 0 /\ Len(list) > limit THEN SubSeq(list, 1, limit)
    ELSE list

\* (mutant: the slice also shows the message another run is still handling)
RecentSlice_SeesInFlight(list, limit) ==
    LET inFlight == {q \in DOMAIN proc :
                        proc[q].op = "ProcessUserMessage" /\ proc[q].pc # "gui.read"}
        slice == IF Len(list) = 0 THEN <<>>
                 ELSE IF limit > 0 /\ Len(list) > limit
                 THEN SubSeq(list, Len(list) - limit + 1, Len(list))
                 ELSE list
    IN  IF inFlight = {} THEN slice
        ELSE LET q == CHOOSE r \in inFlight : TRUE
             IN  SubSeq(slice, 2, Len(slice))
                 \o <<[UserID |-> proc[q].userID, Timestamp |-> now,
                       UserMessage |-> proc[q].message, AIResponse |-> "", Action |-> ""]>>

\* GetUserInteractions, lines 77-87: the slice it returns
RecentSlice(list, limit) ==
    IF Len(list) = 0 THEN <<>>
    ELSE IF limit > 0 /\ Len(list) > limit THEN LastN(list, limit)
    ELSE list

\* GetUserContext, lines 93-102: one "User: ..\nAI: ..\n\n" per interaction
\* (the loop's concatenation, evaluated by halves)
RECURSIVE FormatContext(_)
FormatContext(got) ==
    IF Len(got) = 0 THEN ""
    ELSE IF Len(got) = 1
    THEN "User: " \o got[1].UserMessage \o "\nAI: " \o got[1].AIResponse \o "\n\n"
    ELSE LET h == Len(got) \div 2
         IN  FormatContext(SubSeq(got, 1, h)) \o FormatContext(SubSeq(got, h + 1, Len(got)))

\* Cleanup, lines 196-204: the interactions of one user that stay
After(t, cutoff) == t > cutoff
\* (mutant: a pass removes only the first interaction that is too old)
ValidInteractions_OneAtATime(list, cutoff) ==
    LET old == {j \in 1..Len(list) : ~(list[j].Timestamp > cutoff)}
    IN  IF old = {} THEN list
        ELSE LET first == CHOOSE j \in old : \A k \in old : j <= k
             IN  SubSeq(list, 1, first - 1) \o SubSeq(list, first + 1, Len(list))
ValidInteractions(list, cutoff) ==
    SelectSeq(list, LAMBDA x : After(x.Timestamp, cutoff))

\* Cleanup, lines 195-205: every key keeps its (possibly nil) slice
CleanupTable(table, cutoff) ==
    [u \in DOMAIN table |-> ValidInteractions(table[u], cutoff)]

\* GetUserStats, lines 108-125: the statistics of the slice it got
ActionsUsed(got) ==
    [a \in {got[j].Action : j \in 1..Len(got)} \ {""} |->
        Cardinality({j \in 1..Len(got) : got[j].Action = a})]
NoStats ==
    [total_interactions |-> 0, first_interaction |-> "nil", last_interaction |-> "nil",
     actions_used |-> ActionsUsed(<<>>)]
Stats(got) ==
    IF Len(got) = 0 THEN NoStats
    ELSE [total_interactions |-> Len(got),
          first_interaction |-> TimeText(got[1].Timestamp),
          last_interaction |-> TimeText(got[Len(got)].Timestamp),
          actions_used |-> ActionsUsed(got)]

----------------------------------------------------------------------------
(* sync.RWMutex *)

Unlocked == [writer |-> NoProc, readers |-> {}]
\* (mutant: Lock does not wait for anybody)
CanLock_NotExclusive == TRUE
CanLock == mutex.writer = NoProc /\ mutex.readers = {}
\* (mutant: RLock does not wait for the writer)
CanRLock_IgnoresWriter == TRUE
CanRLock == mutex.writer = NoProc

----------------------------------------------------------------------------
(* history: the table NewDatabase loaded, the store operations in the order
   they acquired the write lock, the cutoffs of the Cleanup calls in the order
   they were applied, and how the last write of the file ended *)

NoHistory(table) ==
    [start |-> table, startFile |-> file, startErr |-> NewDatabaseError(file),
     locks |-> <<>>, cleanups |-> <<>>, lastWrite |-> "none"]

----------------------------------------------------------------------------
(* pkg/telegram/bot.go: the text of a message, by its length in bytes and the
   offsets of its "\n" bytes; every other byte is the same to the splitter *)

NoText == [len |-> 0, newlines |-> {}]

\* text[i] = '\n'
IsNewline(text, i) == i \in text.newlines

\* strings.LastIndex(text[start:end], "\n")
LastIndex(text, start, end) ==
    LET inside == {i \in text.newlines : start <= i /\ i < end}
    IN  IF inside = {} THEN 0 - 1
        ELSE (CHOOSE i \in inside : \A k \in inside : k <= i) - start

\* (mutant: the text is cut after the last line break of the window, wherever
\* in the window that is)
ChunkEnd_AnyNewline(text, start) ==
    LET end == IF start + MaxLength > text.len THEN text.len ELSE start + MaxLength
        lastNewline == LastIndex(text, start, end)
    IN  IF end < text.len /\ lastNewline > 0
        THEN start + lastNewline + 1
        ELSE end

\* (mutant: the line break itself is left out of both chunks)
ChunkEnd_SkipsNewline(text, start) ==
    LET end == IF start + MaxLength > text.len THEN text.len ELSE start + MaxLength
        lastNewline == LastIndex(text, start, end)
    IN  IF end < text.len /\ lastNewline > 0 /\ lastNewline > MaxLength \div 2
        THEN start + lastNewline + 2
        ELSE end

\* sendLongMessage, lines 55-66: where the chunk that begins at start ends
ChunkEnd(text, start) ==
    LET end == IF start + MaxLength > text.len THEN text.len ELSE start + MaxLength
        lastNewline == LastIndex(text, start, end)
    IN  IF end < text.len /\ lastNewline > 0 /\ lastNewline > MaxLength \div 2
        THEN start + lastNewline + 1
        ELSE end

\* line 68: text[start:end]
Slice(text, start, end) ==
    [len |-> end - start,
     newlines |-> {i - start : i \in {k \in text.newlines : start <= k /\ k < end}}]

\* line 76: what is appended to every part but the last
Marker == "\n\n[Message continued...]"

\* the length of part i of n as it is handed to bot.Send
PartLength(chunk, i, n) ==
    (chunk.end - chunk.start) + (IF i < n THEN Len(Marker) ELSE 0)

----------------------------------------------------------------------------
(* goroutines *)

NoResponse ==
    [Action |-> "", Message |-> "", EventID |-> "", EventTitle |-> "", EventDate |-> "",
     EventTime |-> "", Actions |-> <<>>]

Idle ==
    [op |-> "idle", pc |-> "idle", calls |-> 0,
     userID |-> 0, message |-> "", limit |-> 0, daysOld |-> 0,
     userMessage |-> "", aiText |-> "", action |-> "",
     got |-> <<>>, userContext |-> "", stats |-> NoStats, data |-> Marshal(EmptyTable),
     decoded |-> NoResponse, aiResponse |-> NoResponse,
     text |-> NoText, start |-> 0, messages |-> <<>>, sent |-> <<>>,
     response |-> "", i |-> 0, ret |-> "", trace |-> <<>>]

Goto(p, label) == proc' = [proc EXCEPT ![p].pc = label]
Update(p, rec) == proc' = [proc EXCEPT ![p] = rec]

\* where a store operation returns to
AfterGetUserContext(p) == IF proc[p].op = "ProcessUserMessage" THEN "pum.classify" ELSE "done"
AfterAddInteraction(p) == IF proc[p].op = "ProcessUserMessage" THEN "pum.execute" ELSE "done"

\* goroutine p has acquired the write lock for the operation it is in
Locked(p) ==
    [history EXCEPT !.locks = Append(@, [op |-> proc[p].op, userID |-> proc[p].userID,
                                         userMessage |-> proc[p].userMessage])]
\* a Cleanup(daysOld) has filtered the table with this cutoff
Cleaned(daysOld, cutoff) ==
    [history EXCEPT !.cleanups = Append(@, [daysOld |-> daysOld, cutoff |-> cutoff])]
\* os.WriteFile has returned err
Wrote(err) == [history EXCEPT !.lastWrite = err]

(* GetUserInteractions *)

RLock(p) ==
    /\ proc[p].pc = "gui.RLock"
    /\ CanRLock
    /\ mutex' = [mutex EXCEPT !.readers = @ \cup {p}]
    /\ Goto(p, "gui.read")
    /\ UNCHANGED <<interactions, file, now, backup, history>>

ReadInteractions(p) ==
    /\ proc[p].pc = "gui.read"
    /\ Update(p, [proc[p] EXCEPT
            !.got = RecentSlice(Lookup(interactions, proc[p].userID), proc[p].limit),
            !.pc = "gui.RUnlock"])
    /\ UNCHANGED <<interactions, file, mutex, now, backup, history>>

\* (mutant: the read lock is kept when GetUserInteractions returns)
RUnlock_KeepsLock(p) ==
    /\ proc[p].pc = "gui.RUnlock"
    /\ Update(p, [proc[p] EXCEPT
            !.userContext = IF proc[p].op = "GetUserStats" THEN @
                            ELSE FormatContext(proc[p].got),
            !.stats = IF proc[p].op = "GetUserStats" THEN Stats(proc[p].got) ELSE @,
            !.ret = IF proc[p].op \in {"GetUserContext", "GetUserStats"} THEN "returned" ELSE @,
            !.trace = IF proc[p].op = "ProcessUserMessage"
                      THEN Append(@, [op |-> "GetUserContext", arg |-> "",
                                      err |-> "nil", n |-> Len(proc[p].got)])
                      ELSE @,
            !.pc = AfterGetUserContext(p)])
    /\ UNCHANGED <<interactions, file, mutex, now, backup, history>>

\* the deferred RUnlock, and what GetUserContext, respectively GetUserStats,
\* makes of the slice it got (local to the goroutine, so taken in the same step)
RUnlock(p) ==
    /\ proc[p].pc = "gui.RUnlock"
    /\ mutex' = [mutex EXCEPT !.readers = @ \ {p}]
    /\ Update(p, [proc[p] EXCEPT
            !.userContext = IF proc[p].op = "GetUserStats" THEN @
                            ELSE FormatContext(proc[p].got),
            !.stats = IF proc[p].op = "GetUserStats" THEN Stats(proc[p].got) ELSE @,
            !.ret = IF proc[p].op \in {"GetUserContext", "GetUserStats"} THEN "returned" ELSE @,
            !.trace = IF proc[p].op = "ProcessUserMessage"
                      THEN Append(@, [op |-> "GetUserContext", arg |-> "",
                                      err |-> "nil", n |-> Len(proc[p].got)])
                      ELSE @,
            !.pc = AfterGetUserContext(p)])
    /\ UNCHANGED <<interactions, file, now, backup, history>>

(* saveInteractions: os.WriteFile either writes the whole document, or fails
   before touching the file, or fails after truncating it *)

\* (mutant: users whose list is empty are left out of the file)
WriteOutcomes_DropsEmptyLists(table) ==
    { [err |-> "nil",
       file |-> JsonFile([u \in {v \in DOMAIN table : table[v] # <<>>} |-> table[u]])],
      [err |-> "failed to write interactions file", file |-> file],
      [err |-> "failed to write interactions file", file |-> CorruptFile] }

WriteOutcomes(table) ==
    { [err |-> "nil", file |-> JsonFile(table)],
      [err |-> "failed to write interactions file", file |-> file],
      [err |-> "failed to write interactions file", file |-> CorruptFile] }

(* AddInteraction *)

\* (mutant: saveInteractions locks the mutex itself)
SaveTakesNoLock_Locks(p) == CanLock

\* saveInteractions, lines 154-168: it touches no lock, its callers hold the
\* write lock, so it runs as soon as it is called
SaveTakesNoLock(p) == TRUE

AddLock(p) ==
    /\ proc[p].pc = "add.Lock"
    /\ CanLock
    /\ mutex' = [mutex EXCEPT !.writer = p]
    /\ Goto(p, "add.append")
    /\ history' = Locked(p)
    /\ UNCHANGED <<interactions, file, now, backup>>

AddAppend(p) ==
    /\ proc[p].pc = "add.append"
    /\ LET x == Interaction(proc[p].userID, now, proc[p].userMessage,
                            proc[p].aiText, proc[p].action)
       IN  interactions' = Store(interactions, proc[p].userID,
                                 AppendTruncate(Lookup(interactions, proc[p].userID), x))
    /\ Goto(p, "add.save")
    /\ UNCHANGED <<file, mutex, now, backup, history>>

AddSave(p) ==
    /\ proc[p].pc = "add.save"
    /\ SaveTakesNoLock(p)
    /\ \E w \in WriteOutcomes(interactions) :
        /\ file' = w.file
        /\ history' = Wrote(w.err)
        /\ Update(p, [proc[p] EXCEPT
                !.ret = IF proc[p].op = "AddInteraction" THEN w.err ELSE @,
                !.trace = IF proc[p].op = "ProcessUserMessage"
                          THEN Append(@, [op |-> "AddInteraction", arg |-> proc[p].userMessage,
                                          err |-> w.err, n |-> 0])
                          ELSE @,
                !.pc = AfterAddInteraction(p)])
    /\ mutex' = [mutex EXCEPT !.writer = NoProc]
    /\ UNCHANGED <<interactions, now, backup>>

(* Cleanup *)

CleanupLock(p) ==
    /\ proc[p].pc = "cl.Lock"
    /\ CanLock
    /\ mutex' = [mutex EXCEPT !.writer = p]
    /\ Goto(p, "cl.filter")
    /\ history' = Locked(p)
    /\ UNCHANGED <<interactions, file, now, backup>>

CleanupFilter(p) ==
    /\ proc[p].pc = "cl.filter"
    /\ interactions' = CleanupTable(interactions, now - proc[p].daysOld)
    /\ Goto(p, "cl.save")
    /\ history' = Cleaned(proc[p].daysOld, now - proc[p].daysOld)
    /\ UNCHANGED <<file, mutex, now, backup>>

CleanupSave(p) ==
    /\ proc[p].pc = "cl.save"
    /\ SaveTakesNoLock(p)
    /\ \E w \in WriteOutcomes(interactions) :
        /\ file' = w.file
        /\ history' = Wrote(w.err)
        /\ Update(p, [proc[p] EXCEPT !.ret = w.err, !.pc = "done"])
    /\ mutex' = [mutex EXCEPT !.writer = NoProc]
    /\ UNCHANGED <<interactions, now, backup>>

(* Backup *)

BackupRLock(p) ==
    /\ proc[p].pc = "bk.RLock"
    /\ CanRLock
    /\ mutex' = [mutex EXCEPT !.readers = @ \cup {p}]
    /\ Goto(p, "bk.marshal")
    /\ UNCHANGED <<interactions, file, now, backup, history>>

BackupMarshal(p) ==
    /\ proc[p].pc = "bk.marshal"
    /\ Update(p, [proc[p] EXCEPT !.data = Marshal(interactions), !.pc = "bk.RUnlock"])
    /\ UNCHANGED <<interactions, file, mutex, now, backup, history>>

BackupRUnlock(p) ==
    /\ proc[p].pc = "bk.RUnlock"
    /\ mutex' = [mutex EXCEPT !.readers = @ \ {p}]
    /\ Goto(p, "bk.write")
    /\ UNCHANGED <<interactions, file, now, backup, history>>

\* os.WriteFile(backupPath, data, 0644), outside the lock
BackupWrite(p) ==
    /\ proc[p].pc = "bk.write"
    /\ \E w \in { [err |-> "nil", file |-> [kind |-> "json", json |-> proc[p].data]],
                  [err |-> "failed to write backup file", file |-> backup],
                  [err |-> "failed to write backup file", file |-> CorruptFile] } :
        /\ backup' = w.file
        /\ Update(p, [proc[p] EXCEPT !.ret = w.err, !.pc = "done"])
    /\ UNCHANGED <<interactions, file, mutex, now, history>>

(* time passes *)

Tick ==
    /\ now < MaxClock
    /\ now' = now + 1
    /\ UNCHANGED <<interactions, file, mutex, proc, backup, history>>

----------------------------------------------------------------------------
(* pkg/calendar: Service *)

Keywords == {"today", "tomorrow", "yesterday"}
ISODates == {"2025-08-05"}
ClockTimes == {"10:00"}

\* time.Parse("2006-01-02", dateStr) succeeds
ParsesAsDate(dateStr) == dateStr \in ISODates
\* time.Parse("2006-01-02 15:04", dateStr + " " + timeStr) succeeds
ParsesAsDateTime(dateStr, timeStr) == dateStr \in ISODates /\ timeStr \in ClockTimes

\* time.Time.Format("15:04") of a minute of the day
TwoDigits(n) == IF n < 10 THEN "0" \o ToString(n) ELSE ToString(n)
Format1504(minute) == TwoDigits(minute \div 60) \o ":" \o TwoDigits(minute % 60)

\* what Events.List may answer: n events, in start order
EventCounts == {0, 2}
CalendarEvents(n) ==
    [i \in 1..n |-> [ID |-> "ev" \o ToString(i), Summary |-> "E" \o ToString(i),
                     Start |-> 540 + 30 * i, End |-> 600 + 30 * i,
                     Location |-> IF i % 2 = 0 THEN "Room" ELSE ""]]

Nil == "nil"
Answer(err, n) == [err |-> err, events |-> CalendarEvents(n)]

\* (mutant: a date that does not parse is read as today)
GetEvents_AcceptsAnything(dateStr) ==
    {Answer("failed to get events: api", 0)} \cup {Answer(Nil, n) : n \in EventCounts}

\* Service.GetEvents: every answer the call may return
GetEvents(dateStr) ==
    LET d == IF dateStr = "" THEN "today" ELSE dateStr
    IN  IF d \in Keywords \/ ParsesAsDate(d)
        THEN {Answer("failed to get events: api", 0)} \cup {Answer(Nil, n) : n \in EventCounts}
        ELSE {Answer("invalid date format: " \o d, 0)}

\* Service.CreateEvent
CreateEvent(title, dateStr, timeStr) ==
    IF ParsesAsDateTime(dateStr, timeStr)
    THEN {Nil, "failed to create event: api"}
    ELSE {"invalid date/time format: " \o dateStr \o " " \o timeStr}

\* Service.UpdateEvent
UpdateEvent(eventID, title, dateStr, timeStr) ==
    IF ParsesAsDateTime(dateStr, timeStr)
    THEN {Nil, "failed to update event: api"}
    ELSE {"invalid date/time format: " \o dateStr \o " " \o timeStr}

\* Service.DeleteEvent
DeleteEvent(eventID) == {Nil, "failed to delete event: api"}

----------------------------------------------------------------------------
(* pkg/ai/openai.go: OpenAIService.ProcessMessage *)

AIResponse(action, message, id, date, actions) ==
    [Action |-> action, Message |-> message, EventID |-> id, EventTitle |-> "Standup",
     EventDate |-> date, EventTime |-> "10:00", Actions |-> actions]
AIAction(action, date) == [Action |-> action, EventDate |-> date]

TopActions == {"getEvents", "makeEvent", "updtEvent", "delEvents", "None", "message", "remind"}
EventIDs == {"", "ev1"}
TopDates == {"", "today", "2025-08-05", "next week"}
SubActions == {AIAction("getEvents", ""), AIAction("getEvents", "tomorrow"),
               AIAction("makeEvent", "tomorrow")}

RECURSIVE SeqsUpTo(_, _)
SeqsUpTo(S, n) ==
    IF n = 0 THEN {<<>>}
    ELSE LET shorter == SeqsUpTo(S, n - 1)
         IN  shorter \cup {Append(q, x) : q \in shorter, x \in S}

\* the JSON documents the model may answer with, decoded
Decoded ==
    {AIResponse(a, "On it", id, d, subs) :
        a \in TopActions, id \in EventIDs, d \in TopDates, subs \in SeqsUpTo(SubActions, MaxActions)}

\* lines 100-107: content that is no JSON becomes a plain message
PlainTexts == {"Hello there"}
FromPlainText(content) == [NoResponse EXCEPT !.Action = "message", !.Message = content]

\* (mutant: the date is left as the model gave it)
DefaultDate_Missing(aiResp) == aiResp

\* lines 109-114: a getEvents without a date asks for today
DefaultDate(aiResp) ==
    IF aiResp.Action = "getEvents" /\ aiResp.EventDate = ""
    THEN [aiResp EXCEPT !.EventDate = "today"]
    ELSE aiResp

\* every (response, error) ProcessMessage may return
ProcessMessage ==
    {[err |-> e, decoded |-> NoResponse, resp |-> NoResponse] :
        e \in {"OpenAI API error", "no response from OpenAI"}}
    \cup {[err |-> Nil, decoded |-> r, resp |-> DefaultDate(r)] :
            r \in Decoded \cup {FromPlainText(c) : c \in PlainTexts}}

----------------------------------------------------------------------------
(* pkg/ai/agent.go: executeAIAction's texts *)

\* the bullet of an event line (U+2022 in the source)
Bullet == "* "

EventLine(event) ==
    Bullet \o event.Summary \o " (" \o Format1504(event.Start) \o " - "
    \o Format1504(event.End) \o ")"
    \o (IF event.Location # "" THEN " - " \o event.Location ELSE "") \o "\n"

RECURSIVE EventLines(_)
EventLines(events) ==
    IF Len(events) = 0 THEN ""
    ELSE IF Len(events) = 1 THEN EventLine(events[1])
    ELSE LET h == Len(events) \div 2
         IN  EventLines(SubSeq(events, 1, h)) \o EventLines(SubSeq(events, h + 1, Len(events)))

\* (mutant: a single getEvents cuts the list where the actions list does)
SingleGetEventsText_CutsAtFifteen(date, answer) ==
    LET n == Len(answer.events) IN
    IF answer.err # Nil THEN "Error getting events: " \o answer.err
    ELSE IF n = 0 THEN "No events found for " \o date \o "."
    ELSE IF n > MaxEventsMulti
    THEN "Events for " \o date \o " (showing first " \o ToString(MaxEventsSingle)
         \o " of " \o ToString(n) \o "):\n"
         \o EventLines(SubSeq(answer.events, 1, MaxEventsMulti))
         \o "\n... and " \o ToString(n - MaxEventsSingle)
         \o " more events. Use a more specific date range to see fewer events."
    ELSE "Events for " \o date \o ":\n" \o EventLines(answer.events)

\* lines 258-291: the response of a single getEvents
SingleGetEventsText(date, answer) ==
    LET n == Len(answer.events) IN
    IF answer.err # Nil THEN "Error getting events: " \o answer.err
    ELSE IF n = 0 THEN "No events found for " \o date \o "."
    ELSE IF n > MaxEventsSingle
    THEN "Events for " \o date \o " (showing first " \o ToString(MaxEventsSingle)
         \o " of " \o ToString(n) \o "):\n"
         \o EventLines(SubSeq(answer.events, 1, MaxEventsSingle))
         \o "\n... and " \o ToString(n - MaxEventsSingle)
         \o " more events. Use a more specific date range to see fewer events."
    ELSE "Events for " \o date \o ":\n" \o EventLines(answer.events)

\* lines 214-245: what a getEvents of the actions list adds to the response
MultiGetEventsText(date, answer) ==
    LET n == Len(answer.events) IN
    IF answer.err # Nil THEN "Error getting events for " \o date \o ": " \o answer.err \o "\n"
    ELSE IF n = 0 THEN "No events found for " \o date \o ".\n"
    ELSE IF n > MaxEventsMulti
    THEN "Events for " \o date \o " (showing first " \o ToString(MaxEventsMulti)
         \o " of " \o ToString(n) \o "):\n"
         \o EventLines(SubSeq(answer.events, 1, MaxEventsMulti))
         \o "... and " \o ToString(n - MaxEventsMulti) \o " more events.\n" \o "\n"
    ELSE "Events for " \o date \o ":\n" \o EventLines(answer.events) \o "\n"

\* line 247
UnknownActionText(action) == "Unknown action: " \o action \o "\n"

\* lines 296-303
MakeEventText(aiResp, err) ==
    IF err # Nil THEN "Error creating event: " \o err
    ELSE "Event '" \o aiResp.EventTitle \o "' created successfully for "
         \o aiResp.EventDate \o " at " \o aiResp.EventTime

\* lines 308, 312-318
DeleteNeedsID == "Please specify an event ID to delete. Use 'getEvents' first to see available events."
DeleteEventText(err) ==
    IF err # Nil THEN "Error deleting event: " \o err ELSE "Event deleted successfully."

\* lines 324, 328-334
UpdateNeedsID == "Please specify an event ID to update. Use 'getEvents' first to see available events."
UpdateEventText(err) ==
    IF err # Nil THEN "Error updating event: " \o err ELSE "Event updated successfully."

\* (mutant: the action field is looked at first, the actions list only for
\* a decision that names no calendar action)
Branch_ActionFirst(aiResp) ==
    IF aiResp.Action \in {"getEvents", "makeEvent", "delEvents", "updtEvent"}
    THEN aiResp.Action
    ELSE IF Len(aiResp.Actions) > 0 THEN "actions"
    ELSE "message"

\* (mutant: a tag the switch does not know is taken for a getEvents)
Branch_UnknownReadsCalendar(aiResp) ==
    IF Len(aiResp.Actions) > 0 THEN "actions"
    ELSE IF aiResp.Action \in {"getEvents", "makeEvent", "delEvents", "updtEvent"}
    THEN aiResp.Action
    ELSE IF aiResp.Action \in {"None", "message"} THEN "message"
    ELSE "getEvents"

\* lines 204 and 252: the branch executeAIAction takes
Branch(aiResp) ==
    IF Len(aiResp.Actions) > 0 THEN "actions"
    ELSE IF aiResp.Action \in {"getEvents", "makeEvent", "delEvents", "updtEvent"}
    THEN aiResp.Action
    ELSE "message"

\* (mutant: an updtEvent of the actions list reads the calendar first)
SubBranch_UpdateReadsCalendar(action) ==
    IF action.Action \in {"getEvents", "updtEvent"} THEN "getEvents" ELSE "unknown"

\* line 211: the branch of one entry of the actions list
SubBranch(action) == IF action.Action = "getEvents" THEN "getEvents" ELSE "unknown"

\* (mutant: the event ID is not checked)
HasEventID_Unchecked(aiResp) == TRUE

\* lines 306 and 322: the gateway is called only with an event ID
HasEventID(aiResp) == aiResp.EventID # ""

----------------------------------------------------------------------------
(* pkg/ai/agent.go: Agent.ProcessUserMessage, and pkg/telegram: Bot.SendMessage *)

ErrorMsg == "Sorry, I encountered an error processing your request. Please try again."

\* Bot.SendMessage: the errors the transport may answer with
SendMessage(text) == {Nil, "failed to send message"}

\* line 163: what ProcessUserMessage returns after a failed classification
ReturnAfterAIError(aiErr, sendErr) == aiErr
\* (mutant: the final send's error is swallowed)
ReturnAfterSend_Swallows(sendErr) == Nil

\* (mutant: a failed AddInteraction is reported to the caller)
ReturnAfterSend_ReportsStore(sendErr) ==
    LET failed == SelectSeq(proc["g1"].trace,
                            LAMBDA c : c.op = "AddInteraction" /\ c.err # Nil)
    IN  IF sendErr # Nil THEN sendErr
        ELSE IF failed # <<>> THEN failed[1].err
        ELSE Nil

\* lines 188-194: what it returns after the final send
ReturnAfterSend(sendErr) == sendErr

\* the calls a run has made so far, each with what it returned
Called(p, op, arg, err, n) ==
    Append(proc[p].trace, [op |-> op, arg |-> arg, err |-> err, n |-> n])

\* (mutant: the decision is executed without being stored first)
AfterProcessMessage_SkipsStore(err) == IF err # Nil THEN "pum.sendError" ELSE "pum.execute"

\* (mutant: a failed classification is stored and executed like any other)
AfterProcessMessage_IgnoresError(err) == "add.Lock"

\* lines 157 and 164: where the run goes once ProcessMessage has returned
AfterProcessMessage(err) == IF err # Nil THEN "pum.sendError" ELSE "add.Lock"

\* (mutant: a failed call ends the loop)
AfterAction_StopsOnError(i, n, err) == IF i = n \/ err # Nil THEN "pum.send" ELSE "exec.actions"

\* lines 208-249: where the loop goes after entry i of n, whose call returned err
AfterAction(i, n, err) == IF i = n THEN "pum.send" ELSE "exec.actions"

InboundTexts == {"what is on today?"}

\* handleMessage: one inbound update, processed in its own goroutine
Receive(p) ==
    /\ proc[p].pc = "idle"
    /\ \E u \in Users, text \in InboundTexts :
        Update(p, [Idle EXCEPT !.op = "ProcessUserMessage", !.pc = "gui.RLock",
                               !.userID = u, !.message = text, !.limit = ContextCount])
    /\ UNCHANGED <<interactions, file, mutex, now, backup, history>>

\* lines 156-164 and 170: ProcessMessage has returned r
ClassifyAs(p, r) ==
    /\ proc[p].pc = "pum.classify"
    /\ Update(p, [proc[p] EXCEPT
            !.aiResponse = r.resp,
            !.ret = r.err,
            !.decoded = r.decoded,
            !.trace = Called(p, "ProcessMessage", proc[p].userContext, r.err, 0),
            !.userMessage = proc[p].message,
            !.aiText = r.resp.Message,
            !.action = r.resp.Action,
            !.pc = AfterProcessMessage(r.err)])
    /\ UNCHANGED <<interactions, file, mutex, now, backup, history>>

Classify(p) == \E r \in ProcessMessage : ClassifyAs(p, r)

\* lines 159-163
SendError(p) ==
    /\ proc[p].pc = "pum.sendError"
    /\ \E e \in SendMessage(ErrorMsg) :
        Update(p, [proc[p] EXCEPT
            !.trace = Called(p, "SendMessage", ErrorMsg, e, 0),
            !.ret = ReturnAfterAIError(proc[p].ret, e),
            !.pc = "done"])
    /\ UNCHANGED <<interactions, file, mutex, now, backup, history>>

\* lines 204-206
ExecActionsBegin(p) ==
    /\ proc[p].pc = "pum.execute"
    /\ Branch(proc[p].aiResponse) = "actions"
    /\ Update(p, [proc[p] EXCEPT
            !.response = proc[p].aiResponse.Message \o "\n\n",
            !.i = 1,
            !.pc = "exec.actions"])
    /\ UNCHANGED <<interactions, file, mutex, now, backup, history>>

\* lines 208-249: one iteration of the loop over the actions list
ExecActionsStep(p) ==
    /\ proc[p].pc = "exec.actions"
    /\ LET action == proc[p].aiResponse.Actions[proc[p].i]
           last == Len(proc[p].aiResponse.Actions)
       IN  IF SubBranch(action) = "getEvents"
           THEN \E answer \in GetEvents(action.EventDate) :
                   Update(p, [proc[p] EXCEPT
                       !.trace = Called(p, "GetEvents", action.EventDate, answer.err,
                                        Len(answer.events)),
                       !.response = @ \o MultiGetEventsText(action.EventDate, answer),
                       !.i = @ + 1,
                       !.pc = AfterAction(proc[p].i, last, answer.err)])
           ELSE Update(p, [proc[p] EXCEPT
                       !.response = @ \o UnknownActionText(action.Action),
                       !.i = @ + 1,
                       !.pc = AfterAction(proc[p].i, last, Nil)])
    /\ UNCHANGED <<interactions, file, mutex, now, backup, history>>

\* lines 253-291
ExecGetEvents(p) ==
    /\ proc[p].pc = "pum.execute"
    /\ Branch(proc[p].aiResponse) = "getEvents"
    /\ \E answer \in GetEvents(proc[p].aiResponse.EventDate) :
        Update(p, [proc[p] EXCEPT
            !.trace = Called(p, "GetEvents", proc[p].aiResponse.EventDate, answer.err,
                             Len(answer.events)),
            !.response = SingleGetEventsText(proc[p].aiResponse.EventDate, answer),
            !.pc = "pum.send"])
    /\ UNCHANGED <<interactions, file, mutex, now, backup, history>>

\* lines 293-303
ExecMakeEvent(p) ==
    /\ proc[p].pc = "pum.execute"
    /\ Branch(proc[p].aiResponse) = "makeEvent"
    /\ LET r == proc[p].aiResponse IN
       \E e \in CreateEvent(r.EventTitle, r.EventDate, r.EventTime) :
        Update(p, [proc[p] EXCEPT
            !.trace = Called(p, "CreateEvent", r.EventDate, e, 0),
            !.response = MakeEventText(r, e),
            !.pc = "pum.send"])
    /\ UNCHANGED <<interactions, file, mutex, now, backup, history>>

\* lines 305-319
ExecDelEvents(p) ==
    /\ proc[p].pc = "pum.execute"
    /\ Branch(proc[p].aiResponse) = "delEvents"
    /\ LET r == proc[p].aiResponse IN
       IF HasEventID(r)
       THEN \E e \in DeleteEvent(r.EventID) :
               Update(p, [proc[p] EXCEPT
                   !.trace = Called(p, "DeleteEvent", r.EventID, e, 0),
                   !.response = DeleteEventText(e),
                   !.pc = "pum.send"])
       ELSE Update(p, [proc[p] EXCEPT !.response = DeleteNeedsID, !.pc = "pum.send"])
    /\ UNCHANGED <<interactions, file, mutex, now, backup, history>>

\* lines 321-335
ExecUpdtEvent(p) ==
    /\ proc[p].pc = "pum.execute"
    /\ Branch(proc[p].aiResponse) = "updtEvent"
    /\ LET r == proc[p].aiResponse IN
       IF HasEventID(r)
       THEN \E e \in UpdateEvent(r.EventID, r.EventTitle, r.EventDate, r.EventTime) :
               Update(p, [proc[p] EXCEPT
                   !.trace = Called(p, "UpdateEvent", r.EventID, e, 0),
                   !.response = UpdateEventText(e),
                   !.pc = "pum.send"])
       ELSE Update(p, [proc[p] EXCEPT !.response = UpdateNeedsID, !.pc = "pum.send"])
    /\ UNCHANGED <<interactions, file, mutex, now, backup, history>>

\* lines 337-348: "None", "message" and every other tag
ExecMessage(p) ==
    /\ proc[p].pc = "pum.execute"
    /\ Branch(proc[p].aiResponse) = "message"
    /\ Update(p, [proc[p] EXCEPT
            !.response = proc[p].aiResponse.Message,
            !.pc = "pum.send"])
    /\ UNCHANGED <<interactions, file, mutex, now, backup, history>>

\* (mutant: a failed calendar call is returned as executeAIAction's error)
ExecuteError_FromGateway(p) ==
    LET calls == SelectSeq(proc[p].trace,
                     LAMBDA c : c.op \in {"GetEvents", "CreateEvent", "UpdateEvent", "DeleteEvent"})
    IN  IF calls = <<>> THEN Nil ELSE calls[Len(calls)].err

\* line 354, the only return of executeAIAction: return response, nil
ExecuteError(p) == Nil

\* lines 179-184: the text that is sent after executeAIAction
FinalResponse(p) ==
    IF ExecuteError(p) # Nil
    THEN "Error executing action: " \o ExecuteError(p)
    ELSE proc[p].response

\* lines 186-194
Send(p) ==
    /\ proc[p].pc = "pum.send"
    /\ \E e \in SendMessage(FinalResponse(p)) :
        Update(p, [proc[p] EXCEPT
            !.trace = Called(p, "SendMessage", FinalResponse(p), e, 0),
            !.ret = ReturnAfterSend(e),
            !.pc = "done"])
    /\ UNCHANGED <<interactions, file, mutex, now, backup, history>>

----------------------------------------------------------------------------
(* SpecStore: goroutines that call the store directly *)

UserMessages == {"hi"}
AITexts == {"ok"}
ActionTags == {"getEvents"}
Limits == {0 - 1, 0, 2}
DaysOld == {0, 1}

CallsMade == proc["g1"].calls + proc["g2"].calls

\* the goroutines are interchangeable: g1 is the one that calls first
CanCall(p) ==
    /\ proc[p].pc \in {"idle", "done"}
    /\ CallsMade < MaxCalls
    /\ (p # "g1" => proc["g1"].calls > 0)

CallAddInteraction(p) ==
    /\ CanCall(p)
    /\ \E u \in Users, um \in UserMessages, ar \in AITexts, a \in ActionTags :
        Update(p, [Idle EXCEPT !.op = "AddInteraction", !.pc = "add.Lock",
                               !.calls = proc[p].calls + 1, !.userID = u,
                               !.userMessage = um, !.aiText = ar, !.action = a])
    /\ UNCHANGED <<interactions, file, mutex, now, backup, history>>

CallCleanup(p) ==
    /\ CanCall(p)
    /\ \E d \in DaysOld :
        Update(p, [Idle EXCEPT !.op = "Cleanup", !.pc = "cl.Lock",
                               !.calls = proc[p].calls + 1, !.daysOld = d])
    /\ UNCHANGED <<interactions, file, mutex, now, backup, history>>

CallGetUserContext(p) ==
    /\ CanCall(p)
    /\ \E u \in Users, n \in Limits :
        Update(p, [Idle EXCEPT !.op = "GetUserContext", !.pc = "gui.RLock",
                               !.calls = proc[p].calls + 1, !.userID = u, !.limit = n])
    /\ UNCHANGED <<interactions, file, mutex, now, backup, history>>

\* the files NewDatabase may find: none, an empty one, a damaged one, or what
\* an earlier run of the program saved
StartFiles ==
    {MissingFile, ZeroFile, CorruptFile,
     JsonFile(OldTable(HistoryCap, 0)), JsonFile(OldTable(HistoryCap - 1, 2))}

\* NewDatabase
InitStore ==
    /\ file \in StartFiles
    /\ interactions = loadInteractions(file)
    /\ mutex = Unlocked
    /\ now = 0
    /\ backup = MissingFile
    /\ proc = [p \in Procs |-> Idle]
    /\ history = NoHistory(interactions)

NextStore ==
    \/ \E p \in Procs : CallAddInteraction(p)
    \/ \E p \in Procs : CallCleanup(p)
    \/ \E p \in Procs : CallGetUserContext(p)
    \/ \E p \in Procs : RLock(p)
    \/ \E p \in Procs : ReadInteractions(p)
    \/ \E p \in Procs : RUnlock(p)
    \/ \E p \in Procs : AddLock(p)
    \/ \E p \in Procs : AddAppend(p)
    \/ \E p \in Procs : AddSave(p)
    \/ \E p \in Procs : CleanupLock(p)
    \/ \E p \in Procs : CleanupFilter(p)
    \/ \E p \in Procs : CleanupSave(p)
    \/ Tick

SpecStore == InitStore /\ [][NextStore]_vars

----------------------------------------------------------------------------
(* Spec: one inbound message, handled over the store NewDatabase loaded *)

Handler == "g1"

\* the files this run starts from
HandlerFiles ==
    {MissingFile, JsonFile(OldTable(HistoryCap, 0)), JsonFile(OldTable(HistoryCap - 1, 2))}

Init ==
    /\ file \in HandlerFiles
    /\ interactions = loadInteractions(file)
    /\ mutex = Unlocked
    /\ now = 0
    /\ backup = MissingFile
    /\ proc = [p \in Procs |-> Idle]
    /\ history = NoHistory(interactions)

Next ==
    \/ Receive(Handler)
    \/ RLock(Handler)
    \/ ReadInteractions(Handler)
    \/ RUnlock(Handler)
    \/ Classify(Handler)
    \/ SendError(Handler)
    \/ AddLock(Handler)
    \/ AddAppend(Handler)
    \/ AddSave(Handler)
    \/ ExecActionsBegin(Handler)
    \/ ExecActionsStep(Handler)
    \/ ExecGetEvents(Handler)
    \/ ExecMakeEvent(Handler)
    \/ ExecDelEvents(Handler)
    \/ ExecUpdtEvent(Handler)
    \/ ExecMessage(Handler)
    \/ Send(Handler)

Spec == Init /\ [][Next]_vars

----------------------------------------------------------------------------
(* SpecReply: one inbound message, with a classifier that fails, answers in
   plain text, asks for one action of any kind, or asks for a list of actions
   of any kinds *)

BatchActions ==
    SubActions \cup {AIAction("updtEvent", "tomorrow"), AIAction("delEvents", "")}

ReplyDecoded ==
    {AIResponse(a, "On it", id, d, <<>>) :
        a \in TopActions, id \in EventIDs, d \in {"today", "next week"}}
    \cup {AIResponse("None", "On it", "", "", subs) :
            subs \in SeqsUpTo(BatchActions, MaxActions) \ {<<>>}}

ReplyAnswers ==
    {[err |-> e, decoded |-> NoResponse, resp |-> NoResponse] :
        e \in {"OpenAI API error", "no response from OpenAI"}}
    \cup {[err |-> Nil, decoded |-> r, resp |-> DefaultDate(r)] :
            r \in ReplyDecoded \cup {FromPlainText(c) : c \in PlainTexts}}

ClassifyReply(p) == \E r \in ReplyAnswers : ClassifyAs(p, r)

InitReply == Init /\ file = MissingFile

NextReply ==
    \/ Receive(Handler)
    \/ RLock(Handler)
    \/ ReadInteractions(Handler)
    \/ RUnlock(Handler)
    \/ ClassifyReply(Handler)
    \/ SendError(Handler)
    \/ AddLock(Handler)
    \/ AddAppend(Handler)
    \/ AddSave(Handler)
    \/ ExecActionsBegin(Handler)
    \/ ExecActionsStep(Handler)
    \/ ExecGetEvents(Handler)
    \/ ExecMakeEvent(Handler)
    \/ ExecDelEvents(Handler)
    \/ ExecUpdtEvent(Handler)
    \/ ExecMessage(Handler)
    \/ Send(Handler)

SpecReply == InitReply /\ [][NextReply]_vars

\* every collaborator call returns and the handler's goroutine is scheduled
SpecReplyFair == SpecReply /\ WF_vars(NextReply)

----------------------------------------------------------------------------
(* SpecLock: the goroutines call any operation of the store, at one instant *)

CallGetUserStats(p) ==
    /\ CanCall(p)
    /\ \E u \in Users :
        Update(p, [Idle EXCEPT !.op = "GetUserStats", !.pc = "gui.RLock",
                               !.calls = proc[p].calls + 1, !.userID = u, !.limit = 0])
    /\ UNCHANGED <<interactions, file, mutex, now, backup, history>>

CallBackup(p) ==
    /\ CanCall(p)
    /\ Update(p, [Idle EXCEPT !.op = "Backup", !.pc = "bk.RLock",
                              !.calls = proc[p].calls + 1])
    /\ UNCHANGED <<interactions, file, mutex, now, backup, history>>

NextLock ==
    \/ \E p \in Procs : CallAddInteraction(p)
    \/ \E p \in Procs : CallCleanup(p)
    \/ \E p \in Procs : CallGetUserContext(p)
    \/ \E p \in Procs : RLock(p)
    \/ \E p \in Procs : ReadInteractions(p)
    \/ \E p \in Procs : RUnlock(p)
    \/ \E p \in Procs : AddLock(p)
    \/ \E p \in Procs : AddAppend(p)
    \/ \E p \in Procs : AddSave(p)
    \/ \E p \in Procs : CleanupLock(p)
    \/ \E p \in Procs : CleanupFilter(p)
    \/ \E p \in Procs : CleanupSave(p)
    \/ \E p \in Procs : CallGetUserStats(p)
    \/ \E p \in Procs : CallBackup(p)
    \/ \E p \in Procs : BackupRLock(p)
    \/ \E p \in Procs : BackupMarshal(p)
    \/ \E p \in Procs : BackupRUnlock(p)
    \/ \E p \in Procs : BackupWrite(p)

SpecLock == Init /\ [][NextLock]_vars

----------------------------------------------------------------------------
(* SpecOps: the goroutines call the store's operations, any of them at any
   time, for one user; with SpecOpsFair every goroutine that can take a step
   is scheduled in the end and every write to the disk returns *)

StoreOps == {"AddInteraction", "GetUserContext", "GetUserInteractions", "GetUserStats",
             "Cleanup", "Backup"}

\* the first thing the operation does: each one begins by taking the lock
EntryOf(op) ==
    CASE op = "AddInteraction" -> "add.Lock"
      [] op = "Cleanup" -> "cl.Lock"
      [] op = "Backup" -> "bk.RLock"
      [] OTHER -> "gui.RLock"

CallOp(p) ==
    /\ CanCall(p)
    /\ \E op \in StoreOps :
        Update(p, [Idle EXCEPT !.op = op, !.pc = EntryOf(op),
                               !.calls = proc[p].calls + 1, !.userID = 1,
                               !.userMessage = "hi", !.aiText = "ok", !.action = "getEvents",
                               !.limit = IF op = "GetUserStats" THEN 0 ELSE 2,
                               !.daysOld = 0])
    /\ UNCHANGED <<interactions, file, mutex, now, backup, history>>

\* a step of goroutine p inside an operation
OpStep(p) ==
    \/ RLock(p) \/ ReadInteractions(p) \/ RUnlock(p)
    \/ AddLock(p) \/ AddAppend(p) \/ AddSave(p)
    \/ CleanupLock(p) \/ CleanupFilter(p) \/ CleanupSave(p)
    \/ BackupRLock(p) \/ BackupMarshal(p) \/ BackupRUnlock(p) \/ BackupWrite(p)

InitOps == Init /\ file = JsonFile(OldTable(HistoryCap - 1, 2))

NextOps ==
    \/ \E p \in Procs : CallOp(p)
    \/ \E p \in Procs : RLock(p)
    \/ \E p \in Procs : ReadInteractions(p)
    \/ \E p \in Procs : RUnlock(p)
    \/ \E p \in Procs : AddLock(p)
    \/ \E p \in Procs : AddAppend(p)
    \/ \E p \in Procs : AddSave(p)
    \/ \E p \in Procs : CleanupLock(p)
    \/ \E p \in Procs : CleanupFilter(p)
    \/ \E p \in Procs : CleanupSave(p)
    \/ \E p \in Procs : BackupRLock(p)
    \/ \E p \in Procs : BackupMarshal(p)
    \/ \E p \in Procs : BackupRUnlock(p)
    \/ \E p \in Procs : BackupWrite(p)

SpecOps == InitOps /\ [][NextOps]_vars

SpecOpsFair == SpecOps /\ \A p \in Procs : WF_vars(OpStep(p))

----------------------------------------------------------------------------
(* SpecAppend: the goroutines only append, each call with a message of its own *)

\* the n-th AddInteraction that is called carries the message "m<n>"
CallAppend(p) ==
    /\ CanCall(p)
    /\ \E u \in Users, ar \in AITexts, a \in ActionTags :
        Update(p, [Idle EXCEPT !.op = "AddInteraction", !.pc = "add.Lock",
                               !.calls = proc[p].calls + 1, !.userID = u,
                               !.userMessage = "m" \o ToString(CallsMade + 1),
                               !.aiText = ar, !.action = a])
    /\ UNCHANGED <<interactions, file, mutex, now, backup, history>>

NextAppend ==
    \/ \E p \in Procs : CallAppend(p)
    \/ \E p \in Procs : AddLock(p)
    \/ \E p \in Procs : AddAppend(p)
    \/ \E p \in Procs : AddSave(p)
    \/ Tick

SpecAppend == Init /\ [][NextAppend]_vars

----------------------------------------------------------------------------
(* SpecPair: two inbound messages, each handled in its own goroutine, with a
   classifier that fails, answers in plain text, or asks for today's events *)

PairAnswers ==
    {r \in ProcessMessage :
        \/ r.err = "OpenAI API error"
        \/ r.err = Nil /\ r.decoded \in {FromPlainText(c) : c \in PlainTexts}
        \/ r.err = Nil /\ r.decoded = AIResponse("getEvents", "On it", "", "", <<>>)}

ClassifyPair(p) == \E r \in PairAnswers : ClassifyAs(p, r)

NextPair ==
    \/ \E p \in Procs : Receive(p)
    \/ \E p \in Procs : RLock(p)
    \/ \E p \in Procs : ReadInteractions(p)
    \/ \E p \in Procs : RUnlock(p)
    \/ \E p \in Procs : ClassifyPair(p)
    \/ \E p \in Procs : SendError(p)
    \/ \E p \in Procs : AddLock(p)
    \/ \E p \in Procs : AddAppend(p)
    \/ \E p \in Procs : AddSave(p)
    \/ \E p \in Procs : ExecGetEvents(p)
    \/ \E p \in Procs : ExecMessage(p)
    \/ \E p \in Procs : Send(p)

SpecPair == Init /\ [][NextPair]_vars

\* the steps of a run inside the store
StoreStep(p) ==
    \/ RLock(p) \/ ReadInteractions(p) \/ RUnlock(p)
    \/ AddLock(p) \/ AddAppend(p) \/ AddSave(p)

\* all the steps of a run, the calls of the classifier, the calendar and
\* Telegram included
HandlerStep(p) ==
    \/ StoreStep(p)
    \/ ClassifyPair(p) \/ SendError(p) \/ ExecGetEvents(p) \/ ExecMessage(p) \/ Send(p)

\* the calls g2 makes all return; those g1 makes to the classifier, the
\* calendar and Telegram may never return, only its steps inside the store
\* are sure to be taken
InitBlocked == Init /\ file = MissingFile

SpecBlocked == InitBlocked /\ [][NextPair]_vars

SpecPairFair == SpecBlocked /\ WF_vars(StoreStep("g1")) /\ WF_vars(HandlerStep("g2"))

----------------------------------------------------------------------------
(* SpecSend: Bot.SendMessage and Bot.sendLongMessage on texts around the
   lengths 4000, 4096 and 8000, with line breaks around the places where the
   splitter looks for them *)

\* lines 29-44
SendShort(p) ==
    /\ proc[p].pc = "sm.entry"
    /\ ~(proc[p].text.len > TelegramLimit)
    /\ \E e \in {Nil, "failed to send message"} :
        Update(p, [proc[p] EXCEPT
            !.sent = Append(@, [start |-> 0, end |-> proc[p].text.len,
                                length |-> proc[p].text.len, err |-> e]),
            !.ret = e,
            !.pc = "done"])
    /\ UNCHANGED <<interactions, file, mutex, now, backup, history>>

\* lines 33-36 and 51-52
SendLongBegin(p) ==
    /\ proc[p].pc = "sm.entry"
    /\ proc[p].text.len > TelegramLimit
    /\ Update(p, [proc[p] EXCEPT !.start = 0, !.messages = <<>>, !.pc = "slm.split"])
    /\ UNCHANGED <<interactions, file, mutex, now, backup, history>>

\* lines 54-70: one iteration of the splitting loop
SplitStep(p) ==
    /\ proc[p].pc = "slm.split"
    /\ proc[p].start < proc[p].text.len
    /\ LET end == ChunkEnd(proc[p].text, proc[p].start)
       IN  Update(p, [proc[p] EXCEPT
               !.messages = Append(@, [start |-> proc[p].start, end |-> end]),
               !.start = end])
    /\ UNCHANGED <<interactions, file, mutex, now, backup, history>>

\* line 54, the loop's exit; lines 88-89 when there is nothing to send
SplitDone(p) ==
    /\ proc[p].pc = "slm.split"
    /\ ~(proc[p].start < proc[p].text.len)
    /\ Update(p, [proc[p] EXCEPT
            !.i = 1,
            !.ret = IF proc[p].messages = <<>> THEN Nil ELSE @,
            !.pc = IF proc[p].messages = <<>> THEN "done" ELSE "slm.send"])
    /\ UNCHANGED <<interactions, file, mutex, now, backup, history>>

\* lines 73-89: one iteration of the sending loop
SendPart(p) ==
    /\ proc[p].pc = "slm.send"
    /\ LET n == Len(proc[p].messages)
           chunk == proc[p].messages[proc[p].i]
       IN  \E e \in {Nil, "failed to send message part"} :
               Update(p, [proc[p] EXCEPT
                   !.sent = Append(@, [start |-> chunk.start, end |-> chunk.end,
                                       length |-> PartLength(chunk, proc[p].i, n),
                                       err |-> e]),
                   !.i = @ + 1,
                   !.ret = IF e # Nil \/ proc[p].i = n THEN e ELSE @,
                   !.pc = IF e # Nil \/ proc[p].i = n THEN "done" ELSE "slm.send"])
    /\ UNCHANGED <<interactions, file, mutex, now, backup, history>>

TextLengths == {0, 1, 4000, 4001, 4096, 4097, 6003, 8000, 8001, 8100}
NewlineSpots == {0, 2000, 2001, 3999, 4000, 4050, 6002, 8000}
Texts ==
    {[len |-> n, newlines |-> nl] :
        n \in TextLengths,
        nl \in {x \in SUBSET NewlineSpots : Cardinality(x) <= MaxNewlines}}
    \cap {t \in [len : TextLengths, newlines : SUBSET NewlineSpots] :
            \A i \in t.newlines : i < t.len}

\* SendMessage is called with a text, or sendLongMessage is run on it directly
InitSend ==
    /\ file = MissingFile
    /\ interactions = loadInteractions(file)
    /\ mutex = Unlocked
    /\ now = 0
    /\ backup = MissingFile
    /\ history = NoHistory(interactions)
    /\ \E t \in Texts, entry \in {"sm.entry", "slm.split"} :
        proc = [p \in Procs |->
                  IF p = Handler
                  THEN [Idle EXCEPT !.op = "SendMessage", !.pc = entry, !.text = t]
                  ELSE Idle]

NextSend ==
    \/ SendShort(Handler)
    \/ SendLongBegin(Handler)
    \/ SplitStep(Handler)
    \/ SplitDone(Handler)
    \/ SendPart(Handler)

SpecSend == InitSend /\ [][NextSend]_vars

\* every call of bot.Send returns and the goroutine is scheduled
SpecSendFair == SpecSend /\ WF_vars(NextSend)

----------------------------------------------------------------------------
(* SpecEvents: the two renderings of a calendar answer, for every length of
   the answer up to MaxListed *)

ListedDates == {"today", "tomorrow", "2025-08-05", "next week"}

\* executeAIAction is entered with a getEvents decision for some date
InitEvents ==
    /\ file = MissingFile
    /\ interactions = loadInteractions(file)
    /\ mutex = Unlocked
    /\ now = 0
    /\ backup = MissingFile
    /\ history = NoHistory(interactions)
    /\ \E d \in ListedDates :
        proc = [p \in Procs |->
                  IF p = Handler
                  THEN [Idle EXCEPT !.op = "executeAIAction", !.pc = "events",
                                    !.aiResponse = AIResponse("getEvents", "On it", "", d, <<>>)]
                  ELSE Idle]

\* every answer GetEvents may give for the date, with up to MaxListed events
ListedAnswers(dateStr) ==
    IF dateStr \in Keywords \/ ParsesAsDate(dateStr)
    THEN {Answer("failed to get events: api", 0)} \cup {Answer(Nil, n) : n \in 0..MaxListed}
    ELSE {Answer("invalid date format: " \o dateStr, 0)}

\* lines 256-291: the answer rendered as the response of a single getEvents
ShowSingle(p) ==
    /\ proc[p].pc = "events"
    /\ \E answer \in ListedAnswers(proc[p].aiResponse.EventDate) :
        Update(p, [proc[p] EXCEPT
            !.trace = Called(p, "GetEvents", proc[p].aiResponse.EventDate, answer.err,
                             Len(answer.events)),
            !.response = SingleGetEventsText(proc[p].aiResponse.EventDate, answer),
            !.i = 0,
            !.pc = "shown"])
    /\ UNCHANGED <<interactions, file, mutex, now, backup, history>>

\* lines 213-245: the answer rendered as a block of the actions list
ShowMulti(p) ==
    /\ proc[p].pc = "events"
    /\ \E answer \in ListedAnswers(proc[p].aiResponse.EventDate) :
        Update(p, [proc[p] EXCEPT
            !.trace = Called(p, "GetEvents", proc[p].aiResponse.EventDate, answer.err,
                             Len(answer.events)),
            !.response = MultiGetEventsText(proc[p].aiResponse.EventDate, answer),
            !.i = 1,
            !.pc = "shown"])
    /\ UNCHANGED <<interactions, file, mutex, now, backup, history>>

NextEvents == ShowSingle(Handler) \/ ShowMulti(Handler)

SpecEvents == InitEvents /\ [][NextEvents]_vars

----------------------------------------------------------------------------
(* Properties *)

H == proc[Handler]
GatewayOps == {"GetEvents", "CreateEvent", "UpdateEvent", "DeleteEvent"}
GatewayCalls(trace) == SelectSeq(trace, LAMBDA c : c.op \in GatewayOps)
Sends(trace) == SelectSeq(trace, LAMBDA c : c.op = "SendMessage")
Stores(trace) == SelectSeq(trace, LAMBDA c : c.op = "AddInteraction")
Classified(trace) == \E k \in 1..Len(trace) : trace[k].op = "ProcessMessage" /\ trace[k].err = Nil
ClassifyFailed(trace) == \E k \in 1..Len(trace) : trace[k].op = "ProcessMessage" /\ trace[k].err # Nil

\* C1: no user's list ever holds more than 50 interactions, and an append to a
\* list of 50 drops exactly the oldest one: the other 49 stay in their order,
\* followed by the new interaction.
C1_AtMostFifty == \A u \in DOMAIN interactions : Len(interactions[u]) <= 50
C1_EvictsOldest ==
    \A p \in Procs :
        (proc[p].pc = "add.append" /\ proc'[p].pc = "add.save"
            /\ Len(Lookup(interactions, proc[p].userID)) = 50)
        => interactions'[proc[p].userID] =
              Append(Tail(interactions[proc[p].userID]),
                     Interaction(proc[p].userID, now, proc[p].userMessage,
                                 proc[p].aiText, proc[p].action))
C1_HistoryBounded == []C1_AtMostFifty /\ [][C1_EvictsOldest]_vars

\* a 51st interaction has just been appended: the list still holds 50, the
\* oldest one ("old1") is gone and the new one is last
C1_Witness ==
    \E p \in Procs :
        /\ proc[p].pc = "add.save"
        /\ LET list == Lookup(interactions, proc[p].userID)
           IN  /\ Len(list) = 50
               /\ list[1].UserMessage = "old2"
               /\ list[50].UserMessage = proc[p].userMessage
               /\ list[50].Timestamp = now

\* C2: after a failed classification the run only sends the one generic failure
\* message: it stores nothing (table and file are as NewDatabase left them) and
\* calls no calendar operation.
C2_ClassifierErrorStops ==
    ClassifyFailed(H.trace) =>
        /\ H.pc \in {"pum.sendError", "done"}
        /\ GatewayCalls(H.trace) = <<>>
        /\ Stores(H.trace) = <<>>
        /\ file \in HandlerFiles
        /\ interactions = loadInteractions(file)
        /\ mutex = Unlocked
        /\ H.pc = "done" =>
              /\ Len(Sends(H.trace)) = 1
              /\ Sends(H.trace)[1].arg =
                    "Sorry, I encountered an error processing your request. Please try again."

C2_Witness == H.pc = "done" /\ ClassifyFailed(H.trace) /\ Len(Sends(H.trace)) = 1

\* C3 as stated: the run returns an error only when its final send failed; a
\* failed classification does not make it return an error.
C3_OnlySendFailureEscapes ==
    (H.pc = "done" /\ H.ret # Nil) =>
        /\ ~ClassifyFailed(H.trace)
        /\ H.trace[Len(H.trace)].op = "SendMessage"
        /\ H.trace[Len(H.trace)].err # Nil

\* C3, amended: the run returns an error exactly when the classifier failed (it
\* returns the classifier's error, whatever became of the failure message) or
\* the final send failed (it returns that error); a failed save or a failed
\* calendar call never makes it return an error.
C3_ClassifierOrSendFailureEscapes ==
    H.pc = "done" =>
        LET last == H.trace[Len(H.trace)]
            failed == SelectSeq(H.trace, LAMBDA c : c.op = "ProcessMessage" /\ c.err # Nil)
        IN  /\ last.op = "SendMessage"
            /\ IF failed # <<>> THEN H.ret = failed[1].err
               ELSE H.ret = last.err

\* a run whose save failed and whose calendar call failed returned no error
C3_Witness ==
    /\ H.pc = "done"
    /\ H.ret = Nil
    /\ \E k \in 1..Len(H.trace) : H.trace[k].op = "AddInteraction" /\ H.trace[k].err # Nil
    /\ \E k \in 1..Len(H.trace) : H.trace[k].op \in GatewayOps /\ H.trace[k].err # Nil

SingleAction(r) == Len(r.Actions) = 0

\* C5: a single updtEvent or delEvents without an event ID calls no calendar
\* operation and answers with the instruction to use getEvents first; with an
\* event ID it calls UpdateEvent, respectively DeleteEvent, exactly once.
C5_EventIDRequired ==
    (Classified(H.trace) /\ SingleAction(H.aiResponse)
        /\ H.aiResponse.Action \in {"updtEvent", "delEvents"}) =>
        LET calls == GatewayCalls(H.trace)
            executed == H.pc \in {"pum.send", "done"}
        IN  IF H.aiResponse.EventID = ""
            THEN /\ calls = <<>>
                 /\ executed =>
                      H.response =
                         IF H.aiResponse.Action = "updtEvent"
                         THEN "Please specify an event ID to update. Use 'getEvents' first to see available events."
                         ELSE "Please specify an event ID to delete. Use 'getEvents' first to see available events."
            ELSE /\ Len(calls) <= 1
                 /\ executed =>
                      /\ Len(calls) = 1
                      /\ calls[1].op = IF H.aiResponse.Action = "updtEvent"
                                       THEN "UpdateEvent" ELSE "DeleteEvent"
                      /\ calls[1].arg = H.aiResponse.EventID

\* an updtEvent without an event ID has been answered
C5_Witness ==
    /\ H.pc = "done"
    /\ SingleAction(H.aiResponse)
    /\ H.aiResponse.Action = "updtEvent"
    /\ H.aiResponse.EventID = ""
    /\ Len(Sends(H.trace)) = 1

\* the entries of an actions list that ask for getEvents
GetEventsEntries(actions) == SelectSeq(actions, LAMBDA a : a.Action = "getEvents")

\* the result block of the j-th entry of an actions list, given the calendar
\* calls made for the list (in order): an inline error line for a failed call
RECURSIVE BlocksText(_, _)
BlocksText(actions, calls) ==
    IF actions = <<>> THEN ""
    ELSE IF Head(actions).Action = "getEvents"
    THEN (IF Head(calls).err # Nil
          THEN "Error getting events for " \o Head(actions).EventDate \o ": "
               \o Head(calls).err \o "\n"
          ELSE MultiGetEventsText(Head(actions).EventDate, Answer(Nil, Head(calls).n)))
         \o BlocksText(Tail(actions), Tail(calls))
    ELSE "Unknown action: " \o Head(actions).Action \o "\n" \o BlocksText(Tail(actions), calls)

\* C6: for an actions list with k getEvents entries, whichever of the calls fail,
\* GetEvents is called exactly k times, with the entries' dates in list order,
\* the response holds the k result blocks in that order (an error line for each
\* failed call) and SendMessage is called exactly once, with that response.
C6_BatchSurvivesErrors ==
    (H.pc = "done" /\ Classified(H.trace) /\ ~SingleAction(H.aiResponse)) =>
        LET wanted == GetEventsEntries(H.aiResponse.Actions)
            calls == GatewayCalls(H.trace)
        IN  /\ Len(calls) = Len(wanted)
            /\ \A j \in 1..Len(wanted) :
                  calls[j].op = "GetEvents" /\ calls[j].arg = wanted[j].EventDate
            /\ Len(Sends(H.trace)) = 1
            /\ Sends(H.trace)[1].arg =
                  H.aiResponse.Message \o "\n\n" \o BlocksText(H.aiResponse.Actions, calls)

\* two getEvents entries, the first call failed, the second did not
C6_Witness ==
    /\ H.pc = "done"
    /\ Len(GetEventsEntries(H.aiResponse.Actions)) >= 2
    /\ Len(GatewayCalls(H.trace)) >= 2
    /\ GatewayCalls(H.trace)[1].err # Nil
    /\ GatewayCalls(H.trace)[2].err = Nil
    /\ Len(Sends(H.trace)) = 1

\* C7: with a non-empty actions list the action field decides nothing: no
\* CreateEvent, UpdateEvent or DeleteEvent is called, and the calendar calls and
\* the response are those of the list alone (a function of the message, the
\* list and the calendar's answers), whatever the action field says.
C7_ActionsTakePrecedence ==
    (Classified(H.trace) /\ ~SingleAction(H.aiResponse)) =>
        LET calls == GatewayCalls(H.trace)
            reached == IF H.pc = "exec.actions" THEN H.i - 1
                       ELSE IF H.pc \in {"pum.send", "done"} THEN Len(H.aiResponse.Actions)
                       ELSE 0
            executed == SubSeq(H.aiResponse.Actions, 1, reached)
        IN  /\ \A j \in 1..Len(calls) : calls[j].op = "GetEvents"
            /\ Len(calls) = Len(GetEventsEntries(executed))
            /\ reached > 0 =>
                  H.response = H.aiResponse.Message \o "\n\n" \o BlocksText(executed, calls)

\* a list was executed although the action field asked to delete event ev1
C7_Witness ==
    /\ H.pc = "done"
    /\ ~SingleAction(H.aiResponse)
    /\ H.aiResponse.Action = "delEvents"
    /\ H.aiResponse.EventID = "ev1"
    /\ Len(GatewayCalls(H.trace)) >= 1

\* C8: a getEvents decision that comes without a date has the date "today"
\* when it is dispatched, and the calendar's GetEvents is called with "today",
\* not with an empty date.
C8_MissingDateIsToday ==
    (Classified(H.trace) /\ H.decoded.Action = "getEvents" /\ H.decoded.EventDate = "") =>
        /\ H.aiResponse.EventDate = "today"
        /\ SingleAction(H.decoded) =>
              LET calls == GatewayCalls(H.trace)
              IN  /\ \A j \in 1..Len(calls) : calls[j].op = "GetEvents" /\ calls[j].arg = "today"
                  /\ H.pc \in {"pum.send", "done"} => Len(calls) = 1

\* the calendar was asked for "today" on a decision that named no date
C8_Witness ==
    /\ H.pc = "done"
    /\ H.decoded.Action = "getEvents"
    /\ H.decoded.EventDate = ""
    /\ SingleAction(H.decoded)
    /\ Len(GatewayCalls(H.trace)) = 1
    /\ GatewayCalls(H.trace)[1].arg = "today"

\* C9: a single action that is "message", "None" or any tag other than
\* getEvents, makeEvent, updtEvent and delEvents calls no calendar operation,
\* and the text sent is the decision's message, as it is.
C9_MessageFallback ==
    (Classified(H.trace) /\ SingleAction(H.aiResponse)
        /\ H.aiResponse.Action \notin {"getEvents", "makeEvent", "updtEvent", "delEvents"}) =>
        /\ GatewayCalls(H.trace) = <<>>
        /\ H.pc = "done" =>
              /\ Len(Sends(H.trace)) = 1
              /\ Sends(H.trace)[1].arg = H.decoded.Message

\* a decision with a tag the switch does not know has been answered
C9_Witness ==
    /\ H.pc = "done"
    /\ SingleAction(H.aiResponse)
    /\ H.aiResponse.Action = "remind"
    /\ H.aiResponse.EventID = "ev1"
    /\ Sends(H.trace)[1].arg = "On it"

\* the text of a list of interactions, oldest first
RECURSIVE PairsText(_)
PairsText(list) ==
    IF list = <<>> THEN ""
    ELSE "User: " \o Head(list).UserMessage \o "\nAI: " \o Head(list).AIResponse \o "\n\n"
         \o PairsText(Tail(list))

Min(a, b) == IF a < b THEN a ELSE b

RECURSIVE ListedText(_, _, _)
ListedText(events, j, k) ==
    IF j > k THEN ""
    ELSE "* " \o events[j].Summary \o " (" \o Format1504(events[j].Start) \o " - "
         \o Format1504(events[j].End) \o ")"
         \o (IF events[j].Location # "" THEN " - " \o events[j].Location ELSE "") \o "\n"
         \o ListedText(events, j + 1, k)

\* C11: a successful GetEvents that returned N events is rendered as "No events
\* found for {date}." when N = 0, and otherwise as the first min(N, limit) events
\* in the calendar's order, followed by a "... and N-limit more events." note
\* exactly when N > limit; limit is 20 for a single getEvents and 15 for a block
\* of the actions list.
C11_EventsCappedWithNote ==
    (H.op = "executeAIAction" /\ H.pc = "shown" /\ H.trace[1].err = Nil) =>
        LET N == H.trace[1].n
            date == H.aiResponse.EventDate
            events == CalendarEvents(N)
            single == H.i = 0
            limit == IF single THEN 20 ELSE 15
            shown == Min(N, limit)
            heading == IF N > limit
                       THEN "Events for " \o date \o " (showing first " \o ToString(limit)
                            \o " of " \o ToString(N) \o "):\n"
                       ELSE "Events for " \o date \o ":\n"
            note == IF N <= limit THEN ""
                    ELSE IF single
                    THEN "\n... and " \o ToString(N - limit) \o " more events."
                         \o " Use a more specific date range to see fewer events."
                    ELSE "... and " \o ToString(N - limit) \o " more events.\n"
        IN  IF N = 0
            THEN H.response = "No events found for " \o date \o "."
                              \o (IF single THEN "" ELSE "\n")
            ELSE H.response = heading \o ListedText(events, 1, shown) \o note
                              \o (IF single THEN "" ELSE "\n")

\* a single getEvents was answered with 21 events: 20 are shown and one is
\* announced
C11_Witness ==
    /\ H.op = "executeAIAction"
    /\ H.pc = "shown"
    /\ H.i = 0
    /\ H.trace[1].err = Nil
    /\ H.trace[1].n = 21
    /\ H.response # ""

\* the response executeAIAction builds for a decision, given what the calendar
\* answered to the calls made for it
ExpectedResponse(r, calls) ==
    IF Len(r.Actions) > 0 THEN r.Message \o "\n\n" \o BlocksText(r.Actions, calls)
    ELSE IF r.Action = "getEvents"
    THEN SingleGetEventsText(r.EventDate, Answer(calls[1].err, calls[1].n))
    ELSE IF r.Action = "makeEvent" THEN MakeEventText(r, calls[1].err)
    ELSE IF r.Action = "delEvents"
    THEN (IF r.EventID = "" THEN DeleteNeedsID ELSE DeleteEventText(calls[1].err))
    ELSE IF r.Action = "updtEvent"
    THEN (IF r.EventID = "" THEN UpdateNeedsID ELSE UpdateEventText(calls[1].err))
    ELSE r.Message

StoreFailed(trace) ==
    \E k \in 1..Len(trace) : trace[k].op = "AddInteraction" /\ trace[k].err # Nil

\* C12: a failed AddInteraction changes nothing of what follows: the decision is
\* executed, the text sent is the one the decision and the calendar's answers
\* determine (the same function of them whether the save failed or not), and
\* the run returns what the final send returned.
C12_StoreFailureIsSilent ==
    /\ (StoreFailed(H.trace) /\ H.pc # "done") =>
          H.pc \in {"pum.execute", "exec.actions", "pum.send"}
    /\ (Classified(H.trace) /\ H.pc = "done") =>
          /\ Len(Stores(H.trace)) = 1
          /\ Len(Sends(H.trace)) = 1
          /\ Sends(H.trace)[1].arg = ExpectedResponse(H.aiResponse, GatewayCalls(H.trace))
          /\ H.ret = Sends(H.trace)[1].err

\* the save failed and left a damaged file behind; the calendar was read and
\* its two events were sent
C12_Witness ==
    /\ H.pc = "done"
    /\ StoreFailed(H.trace)
    /\ file = CorruptFile
    /\ Len(GatewayCalls(H.trace)) = 1
    /\ GatewayCalls(H.trace)[1].n = 2
    /\ Sends(H.trace)[1].err = Nil
    /\ H.ret = Nil

\* C13 as stated: when the write inside AddInteraction fails, AddInteraction
\* returns an error, the file keeps the content it had, and the user's list in
\* memory ends with the new interaction and holds at most 50.
C13_FailedWriteStep ==
    \A p \in Procs :
        (proc[p].op = "AddInteraction" /\ proc[p].pc = "add.save" /\ proc'[p].pc = "done"
            /\ proc'[p].ret # Nil)
        => LET list == Lookup(interactions', proc[p].userID)
           IN  /\ proc'[p].ret = "failed to write interactions file"
               /\ file' = file
               /\ Len(list) >= 1
               /\ Len(list) <= 50
               /\ list[Len(list)].UserMessage = proc[p].userMessage
               /\ list[Len(list)].AIResponse = proc[p].aiText
C13_FailedWriteKeepsFile == [][C13_FailedWriteStep]_vars

\* C14: appends are atomic. Whatever the interleaving of the AddInteraction
\* calls, a user's list is the last min(50, m + k) entries of the m interactions
\* the store started with followed by the k interactions appended for that
\* user, in the order in which their calls acquired the write lock: none is
\* lost, none is there twice.
C14_AppendsAreAtomic ==
    \A u \in Users :
        LET old == Lookup(history.start, u)
            appended == IF \E p \in Procs : proc[p].pc = "add.append"
                        THEN SubSeq(history.locks, 1, Len(history.locks) - 1)
                        ELSE history.locks
            mine == SelectSeq(appended, LAMBDA e : e.op = "AddInteraction" /\ e.userID = u)
            m == Len(old)
            k == Len(mine)
            keep == Min(50, m + k)
            list == Lookup(interactions, u)
        IN  /\ Len(list) = keep
            /\ \A j \in 1..keep :
                  LET pos == m + k - keep + j
                  IN  IF pos <= m THEN list[j] = old[pos]
                      ELSE /\ list[j].UserMessage = mine[pos - m].userMessage
                           /\ list[j].UserID = u

\* two calls for user 1, who had 49 interactions: the call made second got the
\* lock first, so its interaction comes first; the oldest of the 49 is gone
C14_Witness ==
    /\ \A p \in Procs : proc[p].pc = "done" /\ proc[p].userID = 1
    /\ Len(Lookup(history.start, 1)) = 49
    /\ Len(history.locks) = 2
    /\ history.locks[1].userMessage = "m2"
    /\ LET list == Lookup(interactions, 1)
       IN  /\ Len(list) = 50
           /\ list[1].UserMessage = "old2"
           /\ list[49].UserMessage = "m2"
           /\ list[50].UserMessage = "m1"

\* the run of goroutine p has got its context back from the store
HasContext(p) ==
    /\ proc[p].op = "ProcessUserMessage"
    /\ proc[p].trace # <<>>
    /\ proc[p].trace[1].op = "GetUserContext"

\* C15: handling is not serialized per user. Two runs for the same user can both
\* have read their context before either has appended; in every such state
\* each context is the text of the last 10 interactions the store already had,
\* so it holds nothing of the other run's message, and this is the context
\* the classifier is called with.
C15_ContextsReadBeforeEitherAppend ==
    \A p, q \in Procs :
        (p # q /\ HasContext(p) /\ HasContext(q) /\ proc[p].userID = proc[q].userID
            /\ history.locks = <<>>)
        => LET list == Lookup(history.start, proc[p].userID)
               k == Min(10, Len(list))
           IN  /\ proc[p].got = SubSeq(list, Len(list) - k + 1, Len(list))
               /\ \A j \in 1..Len(proc[p].got) : proc[p].got[j].UserMessage # proc[q].message
               /\ proc[p].userContext = PairsText(proc[p].got)
               /\ \A c \in 1..Len(proc[p].trace) :
                     proc[p].trace[c].op = "ProcessMessage" =>
                        proc[p].trace[c].arg = PairsText(proc[p].got)

\* both runs for user 1 have been classified on the same ten interactions, and
\* neither has appended yet
C15_Witness ==
    /\ \A p \in Procs :
          /\ HasContext(p)
          /\ proc[p].userID = 1
          /\ proc[p].pc = "add.Lock"
          /\ Len(proc[p].got) = 10
          /\ proc[p].trace[2].op = "ProcessMessage"
          /\ proc[p].trace[2].arg # ""
    /\ proc["g1"].trace[2].arg = proc["g2"].trace[2].arg
    /\ history.locks = <<>>

\* the goroutines between Lock and Unlock, and those between RLock and RUnlock
Writing == {p \in Procs : proc[p].pc \in {"add.append", "add.save", "cl.filter", "cl.save"}}
Reading == {p \in Procs : proc[p].pc \in {"gui.read", "gui.RUnlock", "bk.marshal", "bk.RUnlock"}}

C16_OneWriterNoReader ==
    /\ Cardinality(Writing) <= 1
    /\ Writing # {} => Reading = {}
    /\ \A p \in Writing : mutex.writer = p
    /\ \A p \in Reading : p \in mutex.readers /\ mutex.writer = NoProc

C16_WritesUnderLock ==
    (interactions' # interactions \/ file' # file) =>
        \E p \in Procs :
            /\ mutex.writer = p
            /\ p \in Writing
            /\ proc'[p] # proc[p]
            /\ \A q \in Procs \ {p} : proc'[q] = proc[q]

\* C16: at most one operation of the store is changing the table or writing
\* interactions.json at any time, no GetUserContext, GetUserStats or Backup is
\* inside its read section meanwhile, and every change of the table and every
\* write of the file is a step of the goroutine that holds the write lock.
C16_ExclusiveWriter == []C16_OneWriterNoReader /\ [][C16_WritesUnderLock]_vars

\* a Cleanup is about to write the file while a GetUserStats waits for the lock
C16_Witness ==
    \E p, q \in Procs :
        /\ proc[p].op = "Cleanup"
        /\ proc[p].pc = "cl.save"
        /\ mutex.writer = p
        /\ proc[q].op = "GetUserStats"
        /\ proc[q].pc = "gui.RLock"

\* C17: every AddInteraction and every Cleanup writes the whole table before it
\* returns: whenever none of them is between Lock and Unlock and the last write
\* of the file succeeded, the file holds the document of the entire table, all
\* users with all their interactions.
C17_FileHoldsWholeTable ==
    (Writing = {} /\ history.lastWrite = Nil) =>
        /\ file.kind = "json"
        /\ file.json = Marshal(interactions)
        /\ DOMAIN file.json = {ToString(u) : u \in DOMAIN interactions}
        /\ \A u \in DOMAIN interactions :
              Len(file.json[ToString(u)]) = Len(interactions[u])

\* a Cleanup emptied both users' lists and an AddInteraction followed: the file
\* holds one user with one interaction and the other with none
C17_Witness ==
    /\ Writing = {}
    /\ history.lastWrite = Nil
    /\ Len(history.locks) = 2
    /\ history.locks[1].op = "Cleanup"
    /\ history.locks[2].op = "AddInteraction"
    /\ DOMAIN file.json = {"1", "2"}
    /\ \E u, v \in DOMAIN interactions : Len(interactions[u]) = 0 /\ Len(interactions[v]) = 1

\* C18: saving and loading is a round trip. For every table AddInteraction and
\* Cleanup lead to, a store constructed from the file that holds the saved
\* table has the same table: the same users, each with the same interactions
\* in the same order. This holds for the file on disk whenever the last write
\* succeeded and nobody is writing.
C18_SaveLoadRoundTrip ==
    LET reloaded == loadInteractions(JsonFile(interactions))
    IN  /\ DOMAIN reloaded = DOMAIN interactions
        /\ \A u \in DOMAIN interactions :
              /\ Len(reloaded[u]) = Len(interactions[u])
              /\ \A j \in 1..Len(interactions[u]) : reloaded[u][j] = interactions[u][j]
        /\ (Writing = {} /\ history.lastWrite = Nil) => loadInteractions(file) = interactions

\* the file on disk holds 50 interactions of user 1, with and without an action
\* tag, the last one appended at instant 1, and two of user 2
C18_Witness ==
    /\ Writing = {}
    /\ history.lastWrite = Nil
    /\ file.kind = "json"
    /\ DOMAIN interactions = {1, 2}
    /\ Len(interactions[1]) = 50
    /\ interactions[1][50].Timestamp = 1
    /\ interactions[1][49].Action = ""
    /\ interactions[1][50].Action # ""
    /\ Len(interactions[2]) = 2

\* goroutine p applies the filter of a Cleanup that follows another Cleanup
\* with the same daysOld, no AddInteraction having had the lock in between
SecondCleanupFilters(p) ==
    /\ proc[p].pc = "cl.filter"
    /\ proc'[p].pc = "cl.save"
    /\ Len(history.locks) >= 2
    /\ history.locks[Len(history.locks) - 1].op = "Cleanup"
    /\ history.cleanups[Len(history.cleanups)].daysOld = proc[p].daysOld

\* C19 as stated: the second of two Cleanup(max_age) calls in a row removes
\* nothing and leaves the table as the first call left it.
C19_SecondCleanupStep ==
    \A p \in Procs : SecondCleanupFilters(p) => interactions' = interactions
C19_SecondCleanupRemovesNothing == [][C19_SecondCleanupStep]_vars

\* C19, amended: the second of two Cleanup(max_age) calls in a row, with no
\* AddInteraction in between, removes nothing and leaves the table as the first
\* call left it when the clock has not moved between the two calls (the cutoffs
\* are the same); when it has moved, the second call removes only interactions
\* that are not newer than its own, later cutoff, and keeps all the newer ones
\* in their order.
C19_SecondCleanupAmendedStep ==
    \A p \in Procs :
        SecondCleanupFilters(p) =>
            LET first == history.cleanups[Len(history.cleanups)].cutoff
                second == now - proc[p].daysOld
            IN  /\ second >= first
                /\ DOMAIN interactions' = DOMAIN interactions
                /\ \A u \in DOMAIN interactions :
                      /\ SelectSeq(interactions'[u], LAMBDA x : x.Timestamp > second)
                            = SelectSeq(interactions[u], LAMBDA x : x.Timestamp > second)
                      /\ \A j \in 1..Len(interactions'[u]) :
                            interactions'[u][j].Timestamp >= second
                      /\ Len(interactions'[u]) <= Len(interactions[u])
                /\ second = first => interactions' = interactions
C19_SecondCleanupRemovesNewlyOld == [][C19_SecondCleanupAmendedStep]_vars

\* two Cleanup(1) calls at the same instant: the interaction of instant 0 is
\* still there after the second
C19_Witness ==
    /\ Len(history.cleanups) = 2
    /\ history.cleanups[1] = [daysOld |-> 1, cutoff |-> 0 - 1]
    /\ history.cleanups[2] = [daysOld |-> 1, cutoff |-> 0 - 1]
    /\ \A k \in 1..Len(history.locks) : history.locks[k].op = "Cleanup"
    /\ \E u \in DOMAIN interactions :
          Len(interactions[u]) = 1 /\ interactions[u][1].Timestamp = 0

\* C20 as stated: Cleanup(max_age) removes, for every user, exactly the
\* interactions whose timestamp is older than now - max_age; every other one,
\* the one whose timestamp equals the cutoff included, is kept, in the order
\* they had.
C20_CleanupStep ==
    \A p \in Procs :
        (proc[p].pc = "cl.filter" /\ proc'[p].pc = "cl.save") =>
            LET cutoff == now - proc[p].daysOld
            IN  /\ DOMAIN interactions' = DOMAIN interactions
                /\ \A u \in DOMAIN interactions :
                      interactions'[u] =
                         SelectSeq(interactions[u], LAMBDA x : ~(x.Timestamp < cutoff))
C20_CleanupKeepsNotOlder == [][C20_CleanupStep]_vars

\* C21: NewDatabase does not fail on a file that is missing, empty or not JSON:
\* it returns a store with no users and no interactions, and that store takes
\* AddInteraction as any other: the interaction becomes the last of its user's
\* list and the table is written to the file.
C21_EmptyStoreInv ==
    history.startFile.kind \in {"missing", "empty", "corrupt"} =>
        /\ history.startErr = "nil"
        /\ DOMAIN history.start = {}
        /\ (Writing = {} /\ history.lastWrite = "nil") => file = JsonFile(interactions)
C21_EmptyStoreStep ==
    \A p \in Procs :
        (history.startFile.kind \in {"missing", "empty", "corrupt"}
            /\ proc[p].pc = "add.append" /\ proc'[p].pc = "add.save")
        => LET u == proc[p].userID
               before == IF u \in DOMAIN interactions THEN interactions[u] ELSE <<>>
           IN  /\ u \in DOMAIN interactions'
               /\ Len(interactions'[u]) = Len(before) + 1
               /\ SubSeq(interactions'[u], 1, Len(before)) = before
               /\ interactions'[u][Len(before) + 1].UserMessage = proc[p].userMessage
               /\ interactions'[u][Len(before) + 1].Timestamp = now
AcceptedDate(d) == d \in {"today", "tomorrow", "yesterday"} \/ d \in ISODates

\* a single getEvents decision came back with a date that is no date expression
UnacceptedDateRun ==
    /\ Classified(H.trace)
    /\ SingleAction(H.aiResponse)
    /\ H.aiResponse.Action = "getEvents"
    /\ ~AcceptedDate(H.aiResponse.EventDate)

C23_KeywordsAcceptedEverywhere ==
    (Classified(H.trace) /\ SingleAction(H.aiResponse)
        /\ H.aiResponse.Action \in {"getEvents", "makeEvent", "updtEvent"}
        /\ H.aiResponse.EventDate \in {"today", "tomorrow", "yesterday"}
        /\ H.aiResponse.EventTime = "10:00")
    => \A c \in 1..Len(H.trace) :
          H.trace[c].op \in {"GetEvents", "CreateEvent", "UpdateEvent"} =>
             H.trace[c].err \in {Nil, "failed to get events: api",
                                 "failed to create event: api", "failed to update event: api"}

----------------------------------------------------------------------------
(* the long-message splitter, under SpecSend and SpecSendFair *)

\* a + b on texts
Concat(a, b) ==
    [len |-> a.len + b.len,
     newlines |-> a.newlines \cup {i + a.len : i \in b.newlines}]

\* the chunks of a list, joined in order
RECURSIVE Joined(_, _)
Joined(text, chunks) ==
    IF chunks = <<>> THEN NoText
    ELSE Concat(Joined(text, SubSeq(chunks, 1, Len(chunks) - 1)),
                Slice(text, chunks[Len(chunks)].start, chunks[Len(chunks)].end))

\* the parts handed to bot.Send so far are the first chunks of the text, in
\* order, and only the newest of them can have failed
SentInOrder ==
    \A k \in 1..Len(H.sent) :
        /\ H.sent[k].start = (IF k = 1 THEN 0 ELSE H.sent[k - 1].end)
        /\ H.sent[k].start < H.sent[k].end
        /\ k < Len(H.sent) => H.sent[k].err = Nil

\* the run is over and every part was accepted by Telegram
Delivered == H.pc = "done" /\ H.ret = Nil

\* the part ends where a line of the text ends: its last byte is a line break
\* or the byte after it is one
EndsAtLineBoundary(part) ==
    IsNewline(H.text, part.end - 1) \/ IsNewline(H.text, part.end)

\* the line breaks of the 4000 bytes from start that lie beyond the first 2001
LateNewlines(start) ==
    {i \in H.text.newlines : start + (MaxLength \div 2) < i /\ i < start + MaxLength}

\* C24 as stated: a text longer than 4096 is delivered as two or more parts in
\* order, every transmitted part (marker included) is at most 4096 long, and
\* every part except the last ends at a line boundary of the text.
C24_AllPartsEndAtLineBoundaries ==
    H.text.len > TelegramLimit =>
        /\ SentInOrder
        /\ \A k \in 1..Len(H.sent) :
              /\ H.sent[k].length <= TelegramLimit
              /\ H.sent[k].end < H.text.len => EndsAtLineBoundary(H.sent[k])
        /\ Delivered =>
              /\ Len(H.sent) >= 2
              /\ H.sent[Len(H.sent)].end = H.text.len

\* C24, amended: a text longer than 4096 is delivered as two or more parts in
\* order, the sending stopping at the first part that fails; every transmitted
\* part is its chunk plus, except for the last, the 24 bytes of the marker,
\* so at most 4024 long; and every part except the last either ends just after
\* the last line break of its 4000-byte window, when that line break lies
\* beyond the window's first 2001 bytes, or else is cut after exactly 4000
\* bytes, wherever in a line that falls.
C24_PartsEndAtLateLineBreakOrAreCut ==
    H.text.len > TelegramLimit =>
        /\ SentInOrder
        /\ \A k \in 1..Len(H.sent) :
              LET part == H.sent[k]
                  late == LateNewlines(part.start)
              IN  /\ part.length <= MaxLength + Len(Marker)
                  /\ part.length <= TelegramLimit
                  /\ part.end < H.text.len =>
                        /\ part.length = (part.end - part.start) + Len(Marker)
                        /\ late # {} =>
                              /\ part.end - 1 \in late
                              /\ \A i \in late : i < part.end
                        /\ late = {} => part.end = part.start + MaxLength
                  /\ part.end = H.text.len =>
                        part.length = part.end - part.start
        /\ Delivered =>
              /\ Len(H.sent) >= 2
              /\ H.sent[Len(H.sent)].end = H.text.len

\* a text of 8100 bytes whose only line break is at offset 2001 was delivered
\* in three parts: the first ends after the line break, the second is cut in
\* the middle of a line
C24_Witness ==
    /\ Delivered
    /\ H.text = [len |-> 8100, newlines |-> {2001}]
    /\ Len(H.sent) = 3
    /\ H.sent[1].end = 2002
    /\ H.sent[2].end = 6002
    /\ ~EndsAtLineBoundary(H.sent[2])
    /\ H.sent[1].length = 2002 + 24

\* the chunks made so far are non-empty, at most 4000 long, and joined in order
\* they are the text up to start; once the loop is left they are the whole text
C30_ChunksAreTheText ==
    /\ \A k \in 1..Len(H.messages) :
          /\ H.messages[k].end - H.messages[k].start >= 1
          /\ H.messages[k].end - H.messages[k].start <= MaxLength
    /\ H.pc = "slm.split" => Joined(H.text, H.messages) = Slice(H.text, 0, H.start)
    /\ H.pc = "slm.send" => Joined(H.text, H.messages) = H.text
    /\ (H.pc = "done" /\ (H.messages # <<>> \/ H.sent = <<>>)) =>
          Joined(H.text, H.messages) = H.text

\* every iteration of the splitting loop adds one chunk and moves start forward
C30_StartIncreases ==
    (H.pc = "slm.split" /\ proc'[Handler].pc = "slm.split") =>
        /\ proc'[Handler].start > H.start
        /\ proc'[Handler].start <= H.text.len
        /\ Len(proc'[Handler].messages) = Len(H.messages) + 1

\* C30: the splitter terminates on every text, start growing strictly with
\* every iteration; the chunks joined in order, markers aside, are the text,
\* nothing lost and nothing twice; every chunk is non-empty and at most 4000.
C30_SplitterPartitionsText ==
    /\ []C30_ChunksAreTheText
    /\ [][C30_StartIncreases]_vars
    /\ <>[](H.pc = "done")

\* a text of 8001 bytes with line breaks at 3999 and 6002 was split into the
\* chunks [0,4000), [4000,6003) and [6003,8001)
C30_Witness ==
    /\ H.pc = "slm.send"
    /\ H.text = [len |-> 8001, newlines |-> {3999, 6002}]
    /\ Len(H.messages) = 3
    /\ H.messages[2] = [start |-> 4000, end |-> 6003]
    /\ H.messages[3] = [start |-> 6003, end |-> 8001]

----------------------------------------------------------------------------
(* the reply, under SpecReplyFair *)

\* a finished run has called SendMessage exactly once, as the last thing it
\* did; after a successful classification the text is the one executeAIAction
\* built (never "Error executing action: ..."), otherwise the apology
C25_OneReply ==
    /\ Len(Sends(H.trace)) <= 1
    /\ H.pc = "done" =>
          /\ Len(Sends(H.trace)) = 1
          /\ H.trace[Len(H.trace)].op = "SendMessage"
          /\ Classified(H.trace) => Sends(H.trace)[1].arg = H.response
          /\ ClassifyFailed(H.trace) => Sends(H.trace)[1].arg = ErrorMsg
    /\ H.pc # "done" => Sends(H.trace) = <<>>

\* C25: the user always gets a reply: when every collaborator call returns,
\* every run of ProcessUserMessage that starts ends, and it ends having called
\* SendMessage exactly once, whatever the classifier, the calendar and the
\* store answered; executeAIAction never returns an error, so the text sent
\* after a classification is the text it built.
C25_AlwaysReplies ==
    /\ []C25_OneReply
    /\ (H.pc # "idle") ~> (H.pc = "done")

\* a run in which the store's write and a calendar call failed has ended with
\* its one reply
C25_Witness ==
    /\ H.pc = "done"
    /\ StoreFailed(H.trace)
    /\ Len(GatewayCalls(H.trace)) >= 1
    /\ GatewayCalls(H.trace)[1].err # Nil
    /\ Len(Sends(H.trace)) = 1

----------------------------------------------------------------------------
(* the actions list, under SpecReply *)

\* the loop is at an entry of the list that is no getEvents
AtOtherEntry ==
    /\ H.pc = "exec.actions"
    /\ H.aiResponse.Actions[H.i].Action # "getEvents"

\* the step over such an entry calls nothing, adds the one line
\* "Unknown action: X" to the response and goes on to the next entry, or to the
\* sending after the last
C28_OtherEntryStep ==
    AtOtherEntry =>
        /\ proc'[Handler].trace = H.trace
        /\ proc'[Handler].response =
              H.response \o "Unknown action: " \o H.aiResponse.Actions[H.i].Action \o "\n"
        /\ proc'[Handler].i = H.i + 1
        /\ proc'[Handler].pc =
              (IF H.i < Len(H.aiResponse.Actions) THEN "exec.actions" ELSE "pum.send")

\* the calendar is called only for the getEvents entries the loop has passed,
\* and a finished run has passed every entry
C28_OnlyGetEventsCalls ==
    (Classified(H.trace) /\ ~SingleAction(H.aiResponse)) =>
        /\ \A c \in 1..Len(GatewayCalls(H.trace)) : GatewayCalls(H.trace)[c].op = "GetEvents"
        /\ H.pc = "exec.actions" =>
              Len(GatewayCalls(H.trace)) =
                 Len(GetEventsEntries(SubSeq(H.aiResponse.Actions, 1, H.i - 1)))
        /\ H.pc \in {"pum.send", "done"} =>
              /\ H.i = Len(H.aiResponse.Actions) + 1
              /\ Len(GatewayCalls(H.trace)) = Len(GetEventsEntries(H.aiResponse.Actions))

\* C28: in an actions list, an entry that is no getEvents (makeEvent, updtEvent
\* and delEvents included) causes no calendar call, adds exactly one line
\* "Unknown action: X" to the response, and the entries after it are executed
\* all the same.
C28_OtherEntriesAreUnknown ==
    /\ []C28_OnlyGetEventsCalls
    /\ [][C28_OtherEntryStep]_vars

\* the list was an updtEvent followed by a getEvents: the reply holds the
\* unknown-action line and then the one calendar call's events
C28_Witness ==
    /\ H.pc = "done"
    /\ H.aiResponse.Actions = <<AIAction("updtEvent", "tomorrow"), AIAction("getEvents", "tomorrow")>>
    /\ Len(GatewayCalls(H.trace)) = 1
    /\ GatewayCalls(H.trace)[1].err = Nil
    /\ GatewayCalls(H.trace)[1].n = 2
    /\ Sends(H.trace)[1].arg =
          "On it\n\nUnknown action: updtEvent\n"
          \o MultiGetEventsText("tomorrow", Answer(Nil, 2))

----------------------------------------------------------------------------
(* the users' lists, under SpecLock *)

\* the list the table holds for user v
ListOf(table, v) == IF v \in DOMAIN table THEN table[v] ELSE <<>>

\* the step is one of goroutine p
StepOf(p) == proc'[p] # proc[p]

\* a step of an AddInteraction for user u leaves the list of every other user
\* as it is, and the step that appends makes u's list the old one plus the new
\* interaction, less the oldest when that makes 51
C29_AppendTouchesOneList ==
    \A p \in Procs :
        (StepOf(p) /\ proc'[p].op = "AddInteraction") =>
            LET u == proc'[p].userID
                old == ListOf(interactions, u)
                new == ListOf(interactions', u)
            IN  /\ \A v \in Users \ {u} :
                      /\ (v \in DOMAIN interactions') = (v \in DOMAIN interactions)
                      /\ ListOf(interactions', v) = ListOf(interactions, v)
                /\ proc[p].pc = "add.append" =>
                      /\ new[Len(new)].UserID = u
                      /\ new[Len(new)].UserMessage = proc[p].userMessage
                      /\ Len(old) < HistoryCap => SubSeq(new, 1, Len(new) - 1) = old
                      /\ Len(old) = HistoryCap => SubSeq(new, 1, Len(new) - 1) = Tail(old)
                /\ proc[p].pc # "add.append" => new = old

\* a step of a GetUserContext, GetUserInteractions or GetUserStats for user u
\* changes neither the table nor the files; the slice it reads is the end of
\* u's own list, and what it returns is made of that slice alone
C29_ReadsTouchNothing ==
    \A p \in Procs :
        (StepOf(p) /\ proc'[p].op \in {"GetUserContext", "GetUserStats"}) =>
            LET u == proc'[p].userID
                own == ListOf(interactions, u)
                got == proc'[p].got
            IN  /\ interactions' = interactions
                /\ file' = file
                /\ backup' = backup
                /\ proc[p].pc = "gui.read" =>
                      /\ Len(got) <= Len(own)
                      /\ got = SubSeq(own, Len(own) - Len(got) + 1, Len(own))
                      /\ \A j \in 1..Len(got) : got[j].UserID = u
                      /\ proc'[p].limit <= 0 => got = own
                      /\ proc'[p].limit > 0 => Len(got) = Min(proc'[p].limit, Len(own))
                /\ proc[p].pc = "gui.RUnlock" =>
                      /\ proc'[p].op = "GetUserContext" =>
                            proc'[p].userContext = FormatContext(proc[p].got)
                      /\ proc'[p].op = "GetUserStats" =>
                            /\ proc'[p].stats.total_interactions = Len(proc[p].got)
                            /\ proc[p].got = <<>> => proc'[p].stats = NoStats

\* C29: users are isolated in the store: an AddInteraction for user u, the
\* eviction of the oldest entry included, changes u's list in memory and no
\* other user's; GetUserContext, GetUserInteractions and GetUserStats for u
\* change nothing, and what they return is made from u's list alone.
C29_UsersAreIsolated ==
    /\ [][C29_AppendTouchesOneList]_vars
    /\ [][C29_ReadsTouchNothing]_vars

\* user 1's list was full and took one more interaction, the oldest one went,
\* and user 2's two interactions are as they were loaded
C29_Witness ==
    /\ \E p \in Procs : proc[p].op = "AddInteraction" /\ proc[p].pc = "done" /\ proc[p].userID = 1
    /\ 2 \in DOMAIN interactions
    /\ interactions[2] = OldList(2, 2)
    /\ Len(ListOf(interactions, 1)) = HistoryCap
    /\ interactions[1][1].UserMessage = "old2"
    /\ interactions[1][HistoryCap].UserMessage = "hi"

----------------------------------------------------------------------------
(* the lock, under SpecOpsFair *)

\* goroutine p is at the call that takes the lock
AtLock(p) == proc[p].pc \in {"add.Lock", "cl.Lock", "gui.RLock", "bk.RLock"}

\* goroutine p holds the lock, for writing or for reading
Holds(p) == mutex.writer = p \/ p \in mutex.readers

\* goroutine p is inside an operation
Busy(p) == proc[p].pc \notin {"idle", "done"}

\* no goroutine asks for the lock while it holds it, and whenever goroutines
\* are inside operations one of them can take a step
C26_NoSelfLock ==
    /\ \A p \in Procs : AtLock(p) => ~Holds(p)
    /\ (\E p \in Procs : Busy(p)) => (\E p \in Procs : ENABLED OpStep(p))

\* C26: the store never deadlocks: whatever operations (AddInteraction,
\* GetUserContext, GetUserInteractions, GetUserStats, Cleanup, Backup) run
\* concurrently, every one that starts gets its lock and returns, given that
\* the writes to the disk return; and no operation asks for the lock while it
\* holds it.
C26_NoDeadlock ==
    /\ []C26_NoSelfLock
    /\ \A p \in Procs : AtLock(p) ~> Holds(p)
    /\ \A p \in Procs : Busy(p) ~> (proc[p].pc = "done")

\* a Cleanup waits for the lock while a Backup holds it for reading
C26_Witness ==
    /\ proc["g1"].op = "Backup"
    /\ proc["g1"].pc = "bk.marshal"
    /\ proc["g2"].op = "Cleanup"
    /\ proc["g2"].pc = "cl.Lock"
    /\ mutex.readers = {"g1"}

----------------------------------------------------------------------------
(* blocked runs, under SpecPairFair *)

\* the run of goroutine p is inside the classifier call or a calendar call
InCollaboratorCall(p) == proc[p].pc \in {"pum.classify", "pum.execute"}

\* a run that is in a classifier or calendar call holds the store's lock
\* neither for reading nor for writing
C27_BlockedHoldsNoLock ==
    \A p \in Procs : InCollaboratorCall(p) => ~Holds(p)

\* a finished run has called SendMessage exactly once
C27_Replied(p) ==
    /\ proc[p].pc = "done"
    /\ Len(Sends(proc[p].trace)) = 1

\* C27: runs block independently: a run that never comes back from its
\* classifier call or from a calendar call holds no lock of the store, so the
\* other run, for the same user or another, still runs to its end and sends
\* its reply.
C27_RunsBlockIndependently ==
    /\ []C27_BlockedHoldsNoLock
    /\ Busy("g2") ~> C27_Replied("g2")

\* g1 is still in its classifier call for user 1; g2, handling a message of the
\* same user, has stored its interaction and sent its reply
C27_Witness ==
    /\ proc["g1"].pc = "pum.classify"
    /\ proc["g1"].userID = 1
    /\ proc["g2"].userID = 1
    /\ C27_Replied("g2")
    /\ Len(Stores(proc["g2"].trace)) = 1
    /\ Sends(proc["g2"].trace)[1].err = Nil

====
